---------------------------- MODULE Spec2Model ----------------------------
(***************************************************************************)
(* Colorado Holiday Markets: the CSV ingestion pipeline (parseCSV,         *)
(* parseCSVLine, extractCityFromAddress, parseMarketDates) and the         *)
(* filter / sort / selection state machine of the page script.             *)
(*                                                                         *)
(* JavaScript strings are sequences of one-character strings, so that the  *)
(* scanning, trimming, splitting and pattern matching of the source are    *)
(* computed character by character.  A Date is its instant, in whole hours *)
(* since 2025-01-01 00:00 of the browser's local standard time; the local  *)
(* calendar fields are derived from it through the time-zone rule.         *)
(* The map library (Leaflet) is outside the modelled core: renderMarkers   *)
(* is total and changes nothing the model observes.                        *)
(***************************************************************************)
EXTENDS Integers, Sequences, FiniteSets, TLC

-----------------------------------------------------------------------------
(* Characters and strings                                                  *)

\* The printable ASCII characters in code-unit order (codes 32..126); the entry
\* "GRAVE" holds the place of code 96, which no modelled string contains.
Printable ==
    << " ", "!", "\"", "#", "$", "%", "&", "'", "(", ")", "*", "+", ",", "-", ".", "/",
       "0", "1", "2", "3", "4", "5", "6", "7", "8", "9", ":", ";", "<", "=", ">", "?",
       "@", "A", "B", "C", "D", "E", "F", "G", "H", "I", "J", "K", "L", "M", "N", "O",
       "P", "Q", "R", "S", "T", "U", "V", "W", "X", "Y", "Z", "[", "\\", "]", "^", "_",
       "GRAVE", "a", "b", "c", "d", "e", "f", "g", "h", "i", "j", "k", "l", "m", "n", "o",
       "p", "q", "r", "s", "t", "u", "v", "w", "x", "y", "z", "{", "|", "}", "~" >>

PrintableIndex == [c \in {Printable[i] : i \in DOMAIN Printable} |->
                      CHOOSE i \in DOMAIN Printable : Printable[i] = c]

\* UTF-16 code unit of a character: what the < and > of two strings compare.
CharCode(c) ==
    CASE c = "\t" -> 9
      [] c = "\n" -> 10
      [] c = "\r" -> 13
      [] OTHER -> PrintableIndex[c] + 31

UpperChars == {Printable[i] : i \in 34..59}
LowerChars == {Printable[i] : i \in 66..91}
DigitChars == {Printable[i] : i \in 17..26}

IsUpper(c) == c \in UpperChars
IsLower(c) == c \in LowerChars
IsDigit(c) == c \in DigitChars
\* \w of a regular expression: [A-Za-z0-9_]
IsWordChar(c) == IsUpper(c) \/ IsLower(c) \/ IsDigit(c) \/ c = "_"
\* White space as String.prototype.trim, parseFloat and \s see it.
IsWhiteSpace(c) == c \in {" ", "\t", "\n", "\r"}

\* The lower-case letter 32 code units above each upper-case letter.
LowerOf == [c \in UpperChars |-> Printable[PrintableIndex[c] + 32]]

LowerChar(c) == IF IsUpper(c) THEN LowerOf[c] ELSE c

\* String.prototype.toLowerCase
ToLowerCase(s) == [i \in 1..Len(s) |-> LowerChar(s[i])]

\* s.substring(from, to) with 0-based from (inclusive) and to (exclusive).
Substring(s, from, to) == SubSeq(s, from + 1, to)

\* String.prototype.trimStart: from the first character that is no white space.
TrimStart(s) ==
    IF \A p \in 1..Len(s) : IsWhiteSpace(s[p]) THEN <<>>
    ELSE SubSeq(s, CHOOSE p \in 1..Len(s) :
                       ~IsWhiteSpace(s[p]) /\ \A q \in 1..(p - 1) : IsWhiteSpace(s[q]),
                Len(s))

\* String.prototype.trimEnd: up to the last character that is no white space.
TrimEnd(s) ==
    IF \A p \in 1..Len(s) : IsWhiteSpace(s[p]) THEN <<>>
    ELSE SubSeq(s, 1, CHOOSE p \in 1..Len(s) :
                          ~IsWhiteSpace(s[p]) /\ \A q \in (p + 1)..Len(s) : IsWhiteSpace(s[q]))

\* String.prototype.trim
Trim(s) == TrimEnd(TrimStart(s))

\* Does sub occur in s at 1-based position p ?
OccursAt(s, sub, p) ==
    /\ p >= 1
    /\ p + Len(sub) - 1 <= Len(s)
    /\ \A k \in 1..Len(sub) : s[p + k - 1] = sub[k]

\* String.prototype.includes
Includes(s, sub) == \E p \in 1..(Len(s) + 1) : OccursAt(s, sub, p)

\* indexOf in the place of lastIndexOf: the first occurrence.
LastIndexOf_First(s, c) ==
    IF \E p \in 1..Len(s) : s[p] = c
    THEN (CHOOSE p \in 1..Len(s) : s[p] = c /\ \A q \in 1..(p - 1) : s[q] # c) - 1
    ELSE -1

\* String.prototype.lastIndexOf for a one-character pattern (0-based, -1 if absent).
LastIndexOf(s, c) ==
    IF \E p \in 1..Len(s) : s[p] = c
    THEN (CHOOSE p \in 1..Len(s) : s[p] = c /\ \A q \in (p + 1)..Len(s) : s[q] # c) - 1
    ELSE -1

\* String.prototype.split for a one-character separator: the pieces between
\* consecutive separators, always at least one piece.
Split(s, sep) ==
    LET seps == {p \in 1..Len(s) : s[p] = sep}
        n == Cardinality(seps)
        \* position of the k-th separator; 0 before the first, Len(s) + 1 after the last
        at(k) == IF k = 0 THEN 0
                 ELSE IF k = n + 1 THEN Len(s) + 1
                 ELSE CHOOSE p \in seps : Cardinality({q \in seps : q <= p}) = k
    IN  [k \in 1..(n + 1) |-> SubSeq(s, at(k - 1) + 1, at(k) - 1)]

\* The < of two JavaScript strings: lexicographic by code unit.
RECURSIVE StrLess(_, _)
StrLess(a, b) ==
    IF b = <<>> THEN FALSE
    ELSE IF a = <<>> THEN TRUE
    ELSE IF Head(a) = Head(b) THEN StrLess(Tail(a), Tail(b))
    ELSE CharCode(Head(a)) < CharCode(Head(b))

\* The maximal run of decimal digits of s that starts at 1-based position p.
DigitRun(s, p) ==
    LET stop == CHOOSE q \in p..(Len(s) + 1) :
                    /\ q = Len(s) + 1 \/ ~IsDigit(s[q])
                    /\ \A k \in p..(q - 1) : IsDigit(s[k])
    IN  IF p > Len(s) THEN <<>> ELSE SubSeq(s, p, stop - 1)

DigitValue(c) == CharCode(c) - 48

\* parseInt of a non-empty run of decimal digits.
RECURSIVE DigitsToInt(_)
DigitsToInt(ds) ==
    IF ds = <<>> THEN 0
    ELSE 10 * DigitsToInt(SubSeq(ds, 1, Len(ds) - 1)) + DigitValue(ds[Len(ds)])

-----------------------------------------------------------------------------
(* CSV line tokenizer                                                      *)

\* The scanner state of parseCSVLine: the 0-based index i of the next character
\* to read, the field being built, the quote state and the fields pushed so far.
ScanStart == [i |-> 0, current |-> <<>>, insideQuotes |-> FALSE, result |-> <<>>]

\* The loop body without the test for a doubled quote: every quote toggles.
ScanChar_NoEscape(line, st) ==
    LET char == line[st.i + 1]
    IN  IF char = "\""
        THEN [st EXCEPT !.insideQuotes = ~@, !.i = @ + 1]
        ELSE IF char = "," /\ ~st.insideQuotes
             THEN [st EXCEPT !.result = Append(@, st.current), !.current = <<>>, !.i = @ + 1]
        ELSE [st EXCEPT !.current = Append(@, char), !.i = @ + 1]

\* The loop body without the test of insideQuotes for a comma: every comma
\* ends the field.
ScanChar_SplitsInQuotes(line, st) ==
    LET char == line[st.i + 1]
        hasNext == st.i + 2 <= Len(line)
    IN  IF char = "\""
        THEN IF st.insideQuotes /\ hasNext /\ line[st.i + 2] = "\""
             THEN [st EXCEPT !.current = Append(@, "\""), !.i = @ + 2]
             ELSE [st EXCEPT !.insideQuotes = ~@, !.i = @ + 1]
        ELSE IF char = ","
             THEN [st EXCEPT !.result = Append(@, st.current), !.current = <<>>, !.i = @ + 1]
        ELSE [st EXCEPT !.current = Append(@, char), !.i = @ + 1]

\* One pass of the loop body of parseCSVLine, on the character at index st.i.
ScanChar(line, st) ==
    LET char == line[st.i + 1]
        hasNext == st.i + 2 <= Len(line)
    IN  IF char = "\""
        THEN IF st.insideQuotes /\ hasNext /\ line[st.i + 2] = "\""
             THEN [st EXCEPT !.current = Append(@, "\""), !.i = @ + 2]
             ELSE [st EXCEPT !.insideQuotes = ~@, !.i = @ + 1]
        ELSE IF char = "," /\ ~st.insideQuotes
             THEN [st EXCEPT !.result = Append(@, st.current), !.current = <<>>, !.i = @ + 1]
        ELSE [st EXCEPT !.current = Append(@, char), !.i = @ + 1]

\* The loop of parseCSVLine over the indices lo..hi (an index the body has
\* already consumed with i++ is passed over).  The range is halved so that the
\* evaluation stays shallow on long lines.
RECURSIVE ScanRange(_, _, _, _)
ScanRange(line, lo, hi, st) ==
    IF lo > hi THEN st
    ELSE IF lo = hi THEN (IF st.i = lo THEN ScanChar(line, st) ELSE st)
    ELSE LET mid == (lo + hi) \div 2
             left == ScanRange(line, lo, mid, st)
         IN  IF left.i > mid THEN ScanRange(line, mid + 1, hi, left) ELSE left

parseCSVLine(line) ==
    LET st == ScanRange(line, 0, Len(line) - 1, ScanStart)
    IN  Append(st.result, st.current)

-----------------------------------------------------------------------------
(* Numbers: parseFloat                                                     *)

\* A Number is NaN, an infinity, or a finite decimal 0.d1 d2 ... dn * 10^e10
\* with d1 # 0 and dn # 0 (mant = <<>> is zero).
NaN == [k |-> "NaN"]
Infinite(neg) == [k |-> "Infinity", neg |-> neg]
Finite(neg, mant, e10) == [k |-> "num", neg |-> neg, mant |-> mant, e10 |-> e10]

RECURSIVE StripLeadingZeros(_)
StripLeadingZeros(ds) ==
    IF ds # <<>> /\ Head(ds) = "0" THEN StripLeadingZeros(Tail(ds)) ELSE ds

RECURSIVE StripTrailingZeros(_)
StripTrailingZeros(ds) ==
    IF ds # <<>> /\ ds[Len(ds)] = "0"
    THEN StripTrailingZeros(SubSeq(ds, 1, Len(ds) - 1)) ELSE ds

\* Is the digit string a, read as 0.a, at most 0.b ?  The digits are compared
\* at the first index where the two strings differ.
DigitsLeq(a, b) ==
    LET n == IF Len(a) <= Len(b) THEN Len(a) ELSE Len(b)
        differ == { i \in 1..n : a[i] # b[i] }
    IN  IF differ = {} THEN Len(a) <= Len(b)
        ELSE LET first == CHOOSE i \in differ : \A k \in differ : i <= k
             IN  DigitValue(a[first]) < DigitValue(b[first])

\* The decimal digits, all 752 of them, of 2^-1075 = 0.2470...e-323, half of the
\* smallest binary64 number: a magnitude up to it rounds to zero (the tie goes
\* to the even significand, zero).
UnderflowDigits ==
    << "2", "4", "7", "0", "3", "2", "8", "2", "2", "9", "2", "0", "6", "2", "3", "2", "7", "2", "0", "8",
       "8", "2", "8", "4", "3", "9", "6", "4", "3", "4", "1", "1", "0", "6", "8", "6", "1", "8", "2", "5",
       "2", "9", "9", "0", "1", "3", "0", "7", "1", "6", "2", "3", "8", "2", "2", "1", "2", "7", "9", "2",
       "8", "4", "1", "2", "5", "0", "3", "3", "7", "7", "5", "3", "6", "3", "5", "1", "0", "4", "3", "7",
       "5", "9", "3", "2", "6", "4", "9", "9", "1", "8", "1", "8", "0", "8", "1", "7", "9", "9", "6", "1",
       "8", "9", "8", "9", "8", "2", "8", "2", "3", "4", "7", "7", "2", "2", "8", "5", "8", "8", "6", "5",
       "4", "6", "3", "3", "2", "8", "3", "5", "5", "1", "7", "7", "9", "6", "9", "8", "9", "8", "1", "9",
       "9", "3", "8", "7", "3", "9", "8", "0", "0", "5", "3", "9", "0", "9", "3", "9", "0", "6", "3", "1",
       "5", "0", "3", "5", "6", "5", "9", "5", "1", "5", "5", "7", "0", "2", "2", "6", "3", "9", "2", "2",
       "9", "0", "8", "5", "8", "3", "9", "2", "4", "4", "9", "1", "0", "5", "1", "8", "4", "4", "3", "5",
       "9", "3", "1", "8", "0", "2", "8", "4", "9", "9", "3", "6", "5", "3", "6", "1", "5", "2", "5", "0",
       "0", "3", "1", "9", "3", "7", "0", "4", "5", "7", "6", "7", "8", "2", "4", "9", "2", "1", "9", "3",
       "6", "5", "6", "2", "3", "6", "6", "9", "8", "6", "3", "6", "5", "8", "4", "8", "0", "7", "5", "7",
       "0", "0", "1", "5", "8", "5", "7", "6", "9", "2", "6", "9", "9", "0", "3", "7", "0", "6", "3", "1",
       "1", "9", "2", "8", "2", "7", "9", "5", "5", "8", "5", "5", "1", "3", "3", "2", "9", "2", "7", "8",
       "3", "4", "3", "3", "8", "4", "0", "9", "3", "5", "1", "9", "7", "8", "0", "1", "5", "5", "3", "1",
       "2", "4", "6", "5", "9", "7", "2", "6", "3", "5", "7", "9", "5", "7", "4", "6", "2", "2", "7", "6",
       "6", "4", "6", "5", "2", "7", "2", "8", "2", "7", "2", "2", "0", "0", "5", "6", "3", "7", "4", "0",
       "0", "6", "4", "8", "5", "4", "9", "9", "9", "7", "7", "0", "9", "6", "5", "9", "9", "4", "7", "0",
       "4", "5", "4", "0", "2", "0", "8", "2", "8", "1", "6", "6", "2", "2", "6", "2", "3", "7", "8", "5",
       "7", "3", "9", "3", "4", "5", "0", "7", "3", "6", "3", "3", "9", "0", "0", "7", "9", "6", "7", "7",
       "6", "1", "9", "3", "0", "5", "7", "7", "5", "0", "6", "7", "4", "0", "1", "7", "6", "3", "2", "4",
       "6", "7", "3", "6", "0", "0", "9", "6", "8", "9", "5", "1", "3", "4", "0", "5", "3", "5", "5", "3",
       "7", "4", "5", "8", "5", "1", "6", "6", "6", "1", "1", "3", "4", "2", "2", "3", "7", "6", "6", "6",
       "7", "8", "6", "0", "4", "1", "6", "2", "1", "5", "9", "6", "8", "0", "4", "6", "1", "9", "1", "4",
       "4", "6", "7", "2", "9", "1", "8", "4", "0", "3", "0", "0", "5", "3", "0", "0", "5", "7", "5", "3",
       "0", "8", "4", "9", "0", "4", "8", "7", "6", "5", "3", "9", "1", "7", "1", "1", "3", "8", "6", "5",
       "9", "1", "6", "4", "6", "2", "3", "9", "5", "2", "4", "9", "1", "2", "6", "2", "3", "6", "5", "3",
       "8", "8", "1", "8", "7", "9", "6", "3", "6", "2", "3", "9", "3", "7", "3", "2", "8", "0", "4", "2",
       "3", "8", "9", "1", "0", "1", "8", "6", "7", "2", "3", "4", "8", "4", "9", "7", "6", "6", "8", "2",
       "3", "5", "0", "8", "9", "8", "6", "3", "3", "8", "8", "5", "8", "7", "9", "2", "5", "6", "2", "8",
       "3", "0", "2", "7", "5", "5", "9", "9", "5", "6", "5", "7", "5", "2", "4", "4", "5", "5", "5", "0",
       "7", "2", "5", "5", "1", "8", "9", "3", "1", "3", "6", "9", "0", "8", "3", "6", "2", "5", "4", "7",
       "7", "9", "1", "8", "6", "9", "4", "8", "6", "6", "7", "9", "9", "4", "9", "6", "8", "3", "2", "4",
       "0", "4", "9", "7", "0", "5", "8", "2", "1", "0", "2", "8", "5", "1", "3", "1", "8", "5", "4", "5",
       "1", "3", "9", "6", "2", "1", "3", "8", "3", "7", "7", "2", "2", "8", "2", "6", "1", "4", "5", "4",
       "3", "7", "6", "9", "3", "4", "1", "2", "5", "3", "2", "0", "9", "8", "5", "9", "1", "3", "2", "7",
       "6", "6", "7", "2", "3", "6", "3", "2", "8", "1", "2", "5" >>

\* The decimal digits, without the zeros that end them, of 2^1024 - 2^970 =
\* 0.1797...e309, half way from the largest binary64 number to 2^1024: a
\* magnitude from it on rounds to Infinity (the tie goes to the even
\* significand, that of 2^1024).
OverflowDigits ==
    << "1", "7", "9", "7", "6", "9", "3", "1", "3", "4", "8", "6", "2", "3", "1", "5", "8", "0", "7", "9",
       "3", "7", "2", "8", "9", "7", "1", "4", "0", "5", "3", "0", "3", "4", "1", "5", "0", "7", "9", "9",
       "3", "4", "1", "3", "2", "7", "1", "0", "0", "3", "7", "8", "2", "6", "9", "3", "6", "1", "7", "3",
       "7", "7", "8", "9", "8", "0", "4", "4", "4", "9", "6", "8", "2", "9", "2", "7", "6", "4", "7", "5",
       "0", "9", "4", "6", "6", "4", "9", "0", "1", "7", "9", "7", "7", "5", "8", "7", "2", "0", "7", "0",
       "9", "6", "3", "3", "0", "2", "8", "6", "4", "1", "6", "6", "9", "2", "8", "8", "7", "9", "1", "0",
       "9", "4", "6", "5", "5", "5", "5", "4", "7", "8", "5", "1", "9", "4", "0", "4", "0", "2", "6", "3",
       "0", "6", "5", "7", "4", "8", "8", "6", "7", "1", "5", "0", "5", "8", "2", "0", "6", "8", "1", "9",
       "0", "8", "9", "0", "2", "0", "0", "0", "7", "0", "8", "3", "8", "3", "6", "7", "6", "2", "7", "3",
       "8", "5", "4", "8", "4", "5", "8", "1", "7", "7", "1", "1", "5", "3", "1", "7", "6", "4", "4", "7",
       "5", "7", "3", "0", "2", "7", "0", "0", "6", "9", "8", "5", "5", "5", "7", "1", "3", "6", "6", "9",
       "5", "9", "6", "2", "2", "8", "4", "2", "9", "1", "4", "8", "1", "9", "8", "6", "0", "8", "3", "4",
       "9", "3", "6", "4", "7", "5", "2", "9", "2", "7", "1", "9", "0", "7", "4", "1", "6", "8", "4", "4",
       "4", "3", "6", "5", "5", "1", "0", "7", "0", "4", "3", "4", "2", "7", "1", "1", "5", "5", "9", "6",
       "9", "9", "5", "0", "8", "0", "9", "3", "0", "4", "2", "8", "8", "0", "1", "7", "7", "9", "0", "4",
       "1", "7", "4", "4", "9", "7", "7", "9", "2" >>

\* The binary64 value of the decimal literal with integer digits ip, fraction
\* digits fp and exponent ex.
DecimalValue(neg, ip, fp, ex) ==
    LET all == ip \o fp
        lead == StripLeadingZeros(all)
        mant == StripTrailingZeros(lead)
        e10 == Len(ip) - (Len(all) - Len(lead)) + ex
    IN  IF mant = <<>> THEN Finite(neg, <<>>, 0)
        ELSE IF e10 < -323 \/ (e10 = -323 /\ DigitsLeq(mant, UnderflowDigits))
             THEN Finite(neg, <<>>, 0)
        ELSE IF e10 > 309 \/ (e10 = 309 /\ DigitsLeq(OverflowDigits, mant))
             THEN Infinite(neg)
        ELSE Finite(neg, mant, e10)

InfinityWord == << "I", "n", "f", "i", "n", "i", "t", "y" >>

\* parseFloat(string): the value of the longest prefix of the left-trimmed
\* string that is a StrDecimalLiteral, NaN when there is none.
parseFloat(str) ==
    LET s == TrimStart(str)
        signed == s # <<>> /\ s[1] \in {"+", "-"}
        neg == s # <<>> /\ s[1] = "-"
        p == IF signed THEN 2 ELSE 1
        ip == DigitRun(s, p)
        q == p + Len(ip)
        hasDot == q <= Len(s) /\ s[q] = "."
        fp == IF hasDot THEN DigitRun(s, q + 1) ELSE <<>>
        r == IF hasDot THEN q + 1 + Len(fp) ELSE q
        hasE == r <= Len(s) /\ s[r] \in {"e", "E"}
        esigned == hasE /\ r + 1 <= Len(s) /\ s[r + 1] \in {"+", "-"}
        eneg == esigned /\ s[r + 1] = "-"
        ed == IF hasE THEN DigitRun(s, IF esigned THEN r + 2 ELSE r + 1) ELSE <<>>
        ex == IF ed = <<>> THEN 0
              ELSE IF eneg THEN 0 - DigitsToInt(ed) ELSE DigitsToInt(ed)
    IN  IF OccursAt(s, InfinityWord, p) THEN Infinite(neg)
        ELSE IF ip = <<>> /\ fp = <<>> THEN NaN
        ELSE DecimalValue(neg, ip, fp, ex)

\* JavaScript truthiness of a Number: NaN, +0 and -0 are falsy.
NumberIsTruthy(v) == v.k = "Infinity" \/ (v.k = "num" /\ v.mant # <<>>)

\* JavaScript truthiness of a string: only the empty string is falsy.
StringIsTruthy(s) == s # <<>>

-----------------------------------------------------------------------------
(* Dates                                                                   *)

\* The year every parsed market date is anchored to.
SeasonYear == 2025

IsLeapYear(y) == (y % 4 = 0 /\ y % 100 # 0) \/ y % 400 = 0

DaysInYear(y) == IF IsLeapYear(y) THEN 366 ELSE 365

\* Months are 0-based, as in JavaScript.
DaysInMonth(y, m) ==
    IF m = 1 THEN (IF IsLeapYear(y) THEN 29 ELSE 28)
    ELSE IF m \in {3, 5, 8, 10} THEN 30 ELSE 31

RECURSIVE DaysBeforeMonth(_, _)
DaysBeforeMonth(y, m) ==
    IF m = 0 THEN 0 ELSE DaysBeforeMonth(y, m - 1) + DaysInMonth(y, m - 1)

\* Days from January 1 of SeasonYear to January 1 of year y.
RECURSIVE DaysBeforeYear(_)
DaysBeforeYear(y) ==
    IF y = SeasonYear THEN 0
    ELSE IF y > SeasonYear THEN DaysBeforeYear(y - 1) + DaysInYear(y - 1)
    ELSE DaysBeforeYear(y + 1) - DaysInYear(y)

\* Day number (0 = January 1 of SeasonYear) of year y, month m, day d; d may lie
\* outside the month, as the Date constructor and setDate accept it.
DaysFromCivil(y, m, d) == DaysBeforeYear(y) + DaysBeforeMonth(y, m) + d - 1

\* Calendar year, month and day of month of day number n, searched from year y.
RECURSIVE CivilFromDaysIn(_, _)
CivilFromDaysIn(n, y) ==
    IF n < DaysBeforeYear(y) THEN CivilFromDaysIn(n, y - 1)
    ELSE IF n >= DaysBeforeYear(y + 1) THEN CivilFromDaysIn(n, y + 1)
    ELSE LET inYear == n - DaysBeforeYear(y)
             m == CHOOSE k \in 0..11 :
                      /\ DaysBeforeMonth(y, k) <= inYear
                      /\ inYear < DaysBeforeMonth(y, k) + DaysInMonth(y, k)
         IN  [year |-> y, month |-> m, date |-> inYear - DaysBeforeMonth(y, m) + 1]

\* The calendar dates of the year before SeasonYear up to the year after it,
\* computed once.
CivilTable ==
    [n \in DaysBeforeYear(SeasonYear - 1)..(DaysBeforeYear(SeasonYear + 2) - 1) |->
        CivilFromDaysIn(n, SeasonYear)]

CivilFromDays(n) ==
    IF n \in DOMAIN CivilTable THEN CivilTable[n] ELSE CivilFromDaysIn(n, SeasonYear)

\* The day number of the first Sunday on or after day number n (January 1 of
\* SeasonYear is a Wednesday).
FirstSundayFrom(n) == n + ((7 - ((3 + n) % 7)) % 7)

\* The local time zone observes United States daylight saving time: every year
\* the clocks go forward on the second Sunday of March at 02:00 standard time and
\* back on the first Sunday of November at 02:00 daylight time (01:00 standard
\* time).  Both are instants in hours of standard time.
DSTStart(y) == (FirstSundayFrom(DaysFromCivil(y, 2, 1)) + 7) * 24 + 2
DSTEnd(y) == FirstSundayFrom(DaysFromCivil(y, 10, 1)) * 24 + 1

\* Local wall-clock hours of the instant t.
WallHours(t) ==
    LET y == CivilFromDays(t \div 24).year
    IN  IF DSTStart(y) <= t /\ t < DSTEnd(y) THEN t + 1 ELSE t

\* The instant of a local wall-clock time; a time the clock skips is read with
\* the offset before the change, a repeated time is its first occurrence.
FromWall(w) ==
    LET y == CivilFromDays(w \div 24).year
    IN  IF DSTStart(y) + 1 <= w /\ w < DSTEnd(y) + 1 THEN w - 1 ELSE w

getFullYear(t) == CivilFromDays(WallHours(t) \div 24).year
getMonth(t) == CivilFromDays(WallHours(t) \div 24).month
getDate(t) == CivilFromDays(WallHours(t) \div 24).date
getHours(t) == WallHours(t) % 24
\* 0 = Sunday; January 1 of SeasonYear is a Wednesday.
getDay(t) == (3 + (WallHours(t) \div 24)) % 7

\* new Date(y, m, d): local midnight of that day.
NewDate(y, m, d) == FromWall(DaysFromCivil(y, m, d) * 24)

\* d.setDate(d.getDate() + 1): the same local time on the next calendar day.
SetDateNextDay(t) ==
    FromWall(DaysFromCivil(getFullYear(t), getMonth(t), getDate(t) + 1) * 24 + getHours(t))

\* Milliseconds of elapsed time in whole hours.
MsPerDay == 86400000
MsPerHour == 60 * 60 * 1000
AddMs(t, ms) == t + ms \div MsPerHour

\* a.getFullYear() === b.getFullYear() && a.getMonth() === b.getMonth() &&
\* a.getDate() === b.getDate()
SameCalendarDay(a, b) ==
    LET ca == CivilFromDays(WallHours(a) \div 24)
        cb == CivilFromDays(WallHours(b) \div 24)
    IN  ca.year = cb.year /\ ca.month = cb.month /\ ca.date = cb.date

\* The loop with the test d < end.
RECURSIVE DayRange_ExcludesEnd(_, _)
DayRange_ExcludesEnd(d, end) ==
    IF d < end THEN << d >> \o DayRange_ExcludesEnd(SetDateNextDay(d), end) ELSE <<>>

RECURSIVE DayWalk(_, _)
DayWalk(d, end) ==
    IF d <= end THEN << d >> \o DayWalk(SetDateNextDay(d), end) ELSE <<>>

\* The loop walking from the earlier of the two dates to the later.
DayRange_SwapsEnds(d, end) ==
    IF d <= end THEN DayWalk(d, end) ELSE DayWalk(end, d)

\* for (d = new Date(start); d <= end; d.setDate(d.getDate() + 1)) push(new Date(d))
RECURSIVE DayRange(_, _)
DayRange(d, end) ==
    IF d <= end THEN << d >> \o DayRange(SetDateNextDay(d), end) ELSE <<>>

-----------------------------------------------------------------------------
(* Date-range grammar                                                      *)

MonthNames ==
    << <<"j", "a", "n">>, <<"f", "e", "b">>, <<"m", "a", "r">>, <<"a", "p", "r">>,
       <<"m", "a", "y">>, <<"j", "u", "n">>, <<"j", "u", "l">>, <<"a", "u", "g">>,
       <<"s", "e", "p">>, <<"o", "c", "t">>, <<"n", "o", "v">>, <<"d", "e", "c">> >>

\* monthMap[name], defined for the twelve abbreviations.
monthMap(name) == (CHOOSE i \in 1..12 : MonthNames[i] = name) - 1

\* (jan|...|dec) of a pattern with the i flag, at 1-based position p.
MonthAt(s, p) ==
    /\ p + 2 <= Len(s)
    /\ \E i \in 1..12 : ToLowerCase(SubSeq(s, p, p + 2)) = MonthNames[i]

\* The length of the maximal run of white space of s that starts at position p.
SpaceRunLen(s, p) ==
    IF p > Len(s) THEN 0
    ELSE (CHOOSE q \in p..(Len(s) + 1) :
              /\ q = Len(s) + 1 \/ ~IsWhiteSpace(s[q])
              /\ \A k \in p..(q - 1) : IsWhiteSpace(s[k])) - p

\* Does (month)\.?\s+(\d+) (withDot) or (month)\s+(\d+) match at position p ?
\* The result is the match (month name and digits) or <<>>.
MonthDayAt(s, p, withDot) ==
    IF ~MonthAt(s, p) THEN <<>>
    ELSE LET q == IF withDot /\ p + 3 <= Len(s) /\ s[p + 3] = "." THEN p + 4 ELSE p + 3
             sp == SpaceRunLen(s, q)
             ds == DigitRun(s, q + sp)
         IN  IF sp >= 1 /\ ds # <<>>
             THEN << ToLowerCase(SubSeq(s, p, p + 2)), ds >>
             ELSE <<>>

\* dateStr.match(pattern): the leftmost match, <<>> when there is none.
MonthDayMatch(s, withDot) ==
    IF \E p \in 1..Len(s) : MonthDayAt(s, p, withDot) # <<>>
    THEN MonthDayAt(s, CHOOSE p \in 1..Len(s) :
                           /\ MonthDayAt(s, p, withDot) # <<>>
                           /\ \A q \in 1..(p - 1) : MonthDayAt(s, q, withDot) = <<>>,
                    withDot)
    ELSE <<>>

Null == [k |-> "null"]

\* A Date object holding the instant t, where the source may hold null instead.
DateObject(t) == [k |-> "Date", time |-> t]

\* parseDateWithMonth: "Nov. 28", "Dec. 1" or "Dec 24"; a Date or Null.
parseDateWithMonth(dateStr) ==
    LET match == MonthDayMatch(dateStr, TRUE)
    IN  IF match # <<>>
        THEN DateObject(NewDate(SeasonYear, monthMap(match[1]), DigitsToInt(match[2])))
        ELSE Null

\* parseSimpleDate with the pattern of parseDateWithMonth, which allows a dot.
parseSimpleDate_AllowsDot(dateStr) ==
    LET match == MonthDayMatch(dateStr, TRUE)
    IN  IF match # <<>>
        THEN DateObject(NewDate(SeasonYear, monthMap(match[1]), DigitsToInt(match[2])))
        ELSE Null

\* parseSimpleDate: "Nov 29" or "Dec 5" (pipe format); a Date or Null.
parseSimpleDate(dateStr) ==
    LET match == MonthDayMatch(dateStr, FALSE)
    IN  IF match # <<>>
        THEN DateObject(NewDate(SeasonYear, monthMap(match[1]), DigitsToInt(match[2])))
        ELSE Null

\* endStr.match(/(\d+)/): the leftmost maximal run of digits, <<>> when none.
FirstDigitRun(s) ==
    IF \E p \in 1..Len(s) : IsDigit(s[p])
    THEN DigitRun(s, CHOOSE p \in 1..Len(s) :
                         IsDigit(s[p]) /\ \A q \in 1..(p - 1) : ~IsDigit(s[q]))
    ELSE <<>>

\* The dates of one comma-separated, trimmed range of parseMarketDates.
parseRange(range) ==
    IF Includes(range, << "|" >>)
    THEN LET pieces == Split(range, "|")
             startStr == Trim(pieces[1])
             endStr == Trim(pieces[2])
             startDate == parseSimpleDate(startStr)
             endDate == parseSimpleDate(endStr)
         IN  IF StringIsTruthy(startStr) /\ StringIsTruthy(endStr)
                /\ startDate # Null /\ endDate # Null
             THEN DayRange(startDate.time, endDate.time)
             ELSE <<>>
    ELSE IF Includes(range, << "-" >>)
    THEN LET dashPos == LastIndexOf(range, "-")
             startStr == Trim(Substring(range, 0, dashPos))
             endStr == Trim(Substring(range, dashPos + 1, Len(range)))
             startDate == parseDateWithMonth(startStr)
             fullEnd == parseDateWithMonth(endStr)
             dayMatch == FirstDigitRun(endStr)
             endDate == IF fullEnd # Null THEN fullEnd
                        ELSE IF dayMatch # <<>> /\ startDate # Null
                             THEN DateObject(NewDate(SeasonYear, getMonth(startDate.time),
                                                     DigitsToInt(dayMatch)))
                             ELSE Null
         IN  IF dashPos > 0 /\ startDate # Null /\ endDate # Null
             THEN DayRange(startDate.time, endDate.time)
             ELSE <<>>
    ELSE LET singleDate == parseDateWithMonth(range)
         IN  IF singleDate # Null THEN << singleDate.time >> ELSE <<>>

RECURSIVE ParseRangesFrom(_, _)
ParseRangesFrom(ranges, i) ==
    IF i > Len(ranges) THEN <<>>
    ELSE parseRange(Trim(ranges[i])) \o ParseRangesFrom(ranges, i + 1)

\* The dates without those already in the list.
RECURSIVE WithoutRepeats(_)
WithoutRepeats(dates) ==
    IF dates = <<>> THEN <<>>
    ELSE LET front == WithoutRepeats(SubSeq(dates, 1, Len(dates) - 1))
             last == dates[Len(dates)]
         IN  IF \E k \in 1..Len(front) : front[k] = last THEN front ELSE Append(front, last)

\* parseMarketDates pushing a date only when the array does not hold it yet.
parseMarketDates_NoRepeats(dateString) ==
    WithoutRepeats(ParseRangesFrom(Split(dateString, ","), 1))

\* parseMarketDates: the dates of every range, in range order.
parseMarketDates(dateString) == ParseRangesFrom(Split(dateString, ","), 1)

-----------------------------------------------------------------------------
(* Address city extractor                                                  *)

\* \b at the gap before 1-based position p of s.
WordBoundary(s, p) ==
    LET before == p - 1 >= 1 /\ p - 1 <= Len(s) /\ IsWordChar(s[p - 1])
        after == p >= 1 /\ p <= Len(s) /\ IsWordChar(s[p])
    IN  before # after

AllDigits(s, from, to) == \A k \in from..to : k <= Len(s) /\ IsDigit(s[k])

\* /\b[A-Z]{2}\b\s*\d{5}/.test(part)
StateZipBounded(part) ==
    \E p \in 1..Len(part) :
        /\ p + 1 <= Len(part)
        /\ WordBoundary(part, p)
        /\ IsUpper(part[p]) /\ IsUpper(part[p + 1])
        /\ WordBoundary(part, p + 2)
        /\ LET q == p + 2 + SpaceRunLen(part, p + 2)
           IN  AllDigits(part, q, q + 4)

\* The pattern of the fallback with the word boundaries of the first pattern.
StateZip_WordBounded(part) == StateZipBounded(part)

\* /[A-Z]{2}\s*\d{5}/.test(part)
StateZip(part) ==
    \E p \in 1..Len(part) :
        /\ p + 1 <= Len(part)
        /\ IsUpper(part[p]) /\ IsUpper(part[p + 1])
        /\ LET q == p + 2 + SpaceRunLen(part, p + 2)
           IN  AllDigits(part, q, q + 4)

\* /^[A-Z]{2}$/.test(part)
BareState(part) == Len(part) = 2 /\ IsUpper(part[1]) /\ IsUpper(part[2])

\* cityPart.match(/^\d+\s/)
StartsWithStreetNumber(cityPart) ==
    LET ds == DigitRun(cityPart, 1)
    IN  ds # <<>> /\ Len(ds) + 1 <= Len(cityPart) /\ IsWhiteSpace(cityPart[Len(ds) + 1])

\* The test of the candidate without the pattern of the street number.
CityPartAccepted_NonEmptyOnly(cityPart) == StringIsTruthy(cityPart) /\ Len(cityPart) > 0

\* cityPart && !cityPart.match(/^\d+\s/) && cityPart.length > 0
CityPartAccepted(cityPart) ==
    StringIsTruthy(cityPart) /\ ~StartsWithStreetNumber(cityPart) /\ Len(cityPart) > 0

Unknown == << "U", "n", "k", "n", "o", "w", "n" >>

TrimAll(parts) == [i \in 1..Len(parts) |-> Trim(parts[i])]

\* The scan running from the first part: the index of the first part that
\* holds a state abbreviation.
LastStateIndex_First(parts) ==
    IF \E i \in 1..Len(parts) : StateZipBounded(parts[i]) \/ BareState(parts[i])
    THEN CHOOSE i \in 1..Len(parts) :
             /\ StateZipBounded(parts[i]) \/ BareState(parts[i])
             /\ \A j \in 1..(i - 1) : ~(StateZipBounded(parts[j]) \/ BareState(parts[j]))
    ELSE 0

\* The index (1-based) of the last part that holds a state abbreviation, 0 if none.
LastStateIndex(parts) ==
    IF \E i \in 1..Len(parts) : StateZipBounded(parts[i]) \/ BareState(parts[i])
    THEN CHOOSE i \in 1..Len(parts) :
             /\ StateZipBounded(parts[i]) \/ BareState(parts[i])
             /\ \A j \in (i + 1)..Len(parts) : ~(StateZipBounded(parts[j]) \/ BareState(parts[j]))
    ELSE 0

extractCityFromAddress(address) ==
    IF ~StringIsTruthy(address) \/ Trim(address) = <<>> THEN Unknown
    ELSE LET parts == TrimAll(Split(address, ","))
             i == LastStateIndex(parts)
             n == Len(parts)
         IN  IF i > 1 /\ CityPartAccepted(parts[i - 1]) THEN parts[i - 1]
             ELSE IF /\ n >= 2
                     /\ StateZip(parts[n]) \/ BareState(parts[n])
                     /\ CityPartAccepted(Trim(parts[n - 1]))
                  THEN Trim(parts[n - 1])
             ELSE Unknown

-----------------------------------------------------------------------------
(* Market record builder                                                   *)

\* values[k]?.trim() || fallback, with k the 0-based column.
FieldOr(values, k, fallback) ==
    IF k + 1 <= Len(values) /\ StringIsTruthy(Trim(values[k + 1]))
    THEN Trim(values[k + 1]) ELSE fallback

\* parseFloat(token) || null
NumberOrNull(token) ==
    IF NumberIsTruthy(parseFloat(token)) THEN parseFloat(token) ELSE Null

Free == << "F", "r", "e", "e" >>

\* The market object built from the tokens of line i (0-based line index, kept
\* as ref: the identity of the object, which two rows of equal content do not share).
MarketOf(values, i) ==
    LET address == FieldOr(values, 5, <<>>)
    IN  [ ref |-> i,
          name |-> FieldOr(values, 0, <<>>),
          lat |-> NumberOrNull(values[2]),
          lon |-> NumberOrNull(values[3]),
          region |-> FieldOr(values, 3, Unknown),
          city |-> extractCityFromAddress(address),
          zipCode |-> FieldOr(values, 4, <<>>),
          address |-> address,
          date |-> FieldOr(values, 6, <<>>),
          cost |-> FieldOr(values, 7, Free),
          website |-> FieldOr(values, 8, <<>>),
          description |-> FieldOr(values, 9, <<>>),
          dates |-> parseMarketDates(FieldOr(values, 6, <<>>)) ]

\* The test of the row asking for a parsed date as well.
RowIsKept_NeedsDates(values) ==
    /\ ~(Len(values) < 3 \/ ~StringIsTruthy(Trim(values[1])))
    /\ NumberOrNull(values[2]) # Null
    /\ NumberOrNull(values[3]) # Null
    /\ parseMarketDates(FieldOr(values, 6, <<>>)) # <<>>

\* Does the loop body of parseCSV push a market for these tokens ?
RowIsKept(values) ==
    /\ ~(Len(values) < 3 \/ ~StringIsTruthy(Trim(values[1])))
    /\ NumberOrNull(values[2]) # Null
    /\ NumberOrNull(values[3]) # Null

\* The loop of parseCSV leaving at the first row it does not keep.
RECURSIVE ParseLinesFrom_StopsAtBadRow(_, _)
ParseLinesFrom_StopsAtBadRow(lines, i) ==
    IF i + 1 > Len(lines) THEN <<>>
    ELSE LET values == parseCSVLine(lines[i + 1])
         IN  IF RowIsKept(values)
             THEN << MarketOf(values, i) >> \o ParseLinesFrom_StopsAtBadRow(lines, i + 1)
             ELSE <<>>

RECURSIVE ParseLinesFrom(_, _)
ParseLinesFrom(lines, i) ==
    IF i + 1 > Len(lines) THEN <<>>
    ELSE LET values == parseCSVLine(lines[i + 1])
         IN  (IF RowIsKept(values) THEN << MarketOf(values, i) >> ELSE <<>>)
                 \o ParseLinesFrom(lines, i + 1)

parseCSV(csv) ==
    LET lines == Split(Trim(csv), "\n")
    IN  IF Len(lines) < 2 THEN <<>> ELSE ParseLinesFrom(lines, 1)

-----------------------------------------------------------------------------
(* Filtering and sorting                                                   *)

Today == << "t", "o", "d", "a", "y" >>
Tomorrow == << "t", "o", "m", "o", "r", "r", "o", "w" >>
Weekend == << "w", "e", "e", "k", "e", "n", "d" >>
ColName == << "n", "a", "m", "e" >>
ColDate == << "d", "a", "t", "e" >>
ColCity == << "c", "i", "t", "y" >>

\* dates.some(d => market.dates.some(md => same year, month and day))
SomeSameDay(dates, marketDates) ==
    \E d \in {dates[i] : i \in 1..Len(dates)} :
        \E md \in {marketDates[j] : j \in 1..Len(marketDates)} : SameCalendarDay(md, d)

\* marketIsOpenOnDate without its first line: a market without dates is
\* compared like any other, and no date matches.
marketIsOpenOnDate_NoExemption(s, market, dateFilter) ==
    IF dateFilter = Weekend
    THEN SomeSameDay(DayRange(s.weekendStart, s.weekendEnd), market.dates)
    ELSE LET ref == CASE dateFilter = Today -> s.today
                      [] dateFilter = Tomorrow -> s.tomorrow
             targetDate == NewDate(getFullYear(ref), getMonth(ref), getDate(ref))
         IN  SomeSameDay(<< targetDate >>, market.dates)

\* marketIsOpenOnDate, for the three date filters the buttons set.
marketIsOpenOnDate(s, market, dateFilter) ==
    IF Len(market.dates) = 0 THEN TRUE
    ELSE IF dateFilter = Weekend
    THEN SomeSameDay(DayRange(s.weekendStart, s.weekendEnd), market.dates)
    ELSE LET ref == CASE dateFilter = Today -> s.today
                      [] dateFilter = Tomorrow -> s.tomorrow
             targetDate == NewDate(getFullYear(ref), getMonth(ref), getDate(ref))
         IN  SomeSameDay(<< targetDate >>, market.dates)

\* The three tests of the filter callback of applyFilters.
matchesSearch(s, market) ==
    LET needle == ToLowerCase(s.currentFilters.search)
    IN  \/ Includes(ToLowerCase(market.name), needle)
        \/ Includes(ToLowerCase(market.address), needle)
        \/ Includes(ToLowerCase(market.description), needle)

matchesCity(s, market) ==
    ~StringIsTruthy(s.currentFilters.city) \/ market.city = s.currentFilters.city

matchesDate(s, market) ==
    IF StringIsTruthy(s.currentFilters.dateFilter)
    THEN marketIsOpenOnDate(s, market, s.currentFilters.dateFilter)
    ELSE TRUE

\* The filter callback with the city and date tests joined by || .
filterCallback_AnyFilter(s, market) ==
    matchesSearch(s, market) /\ (matchesCity(s, market) \/ matchesDate(s, market))

filterCallback(s, market) ==
    matchesSearch(s, market) /\ matchesCity(s, market) /\ matchesDate(s, market)

\* Array.prototype.filter: the elements that pass, in order.
RECURSIVE FilterMarkets(_, _, _)
FilterMarkets(s, markets, i) ==
    IF i > Len(markets) THEN <<>>
    ELSE (IF filterCallback(s, markets[i]) THEN << markets[i] >> ELSE <<>>)
             \o FilterMarkets(s, markets, i + 1)

\* The value the comparator of sortFilteredMarkets reads from a market.
SortValue(s, market) ==
    CASE s.sortColumn = ColName -> ToLowerCase(market.name)
      [] s.sortColumn = ColDate -> ToLowerCase(market.date)
      [] s.sortColumn = ColCity -> ToLowerCase(market.city)

\* The comparator without the test of sortAscending.
compareMarkets_IgnoreDirection(s, a, b) ==
    IF s.sortColumn \notin {ColName, ColDate, ColCity} THEN 0
    ELSE IF StrLess(SortValue(s, a), SortValue(s, b)) THEN -1
    ELSE IF StrLess(SortValue(s, b), SortValue(s, a)) THEN 1
    ELSE 0

\* The comparator of sortFilteredMarkets.
compareMarkets(s, a, b) ==
    IF s.sortColumn \notin {ColName, ColDate, ColCity} THEN 0
    ELSE IF StrLess(SortValue(s, a), SortValue(s, b))
         THEN (IF s.sortAscending THEN -1 ELSE 1)
    ELSE IF StrLess(SortValue(s, b), SortValue(s, a))
         THEN (IF s.sortAscending THEN 1 ELSE -1)
    ELSE 0

\* Array.prototype.sort is stable: x goes after every element that does not
\* compare greater than it.
RECURSIVE InsertMarket(_, _, _)
InsertMarket(s, sorted, x) ==
    IF sorted = <<>> THEN << x >>
    ELSE IF compareMarkets(s, sorted[Len(sorted)], x) <= 0 THEN Append(sorted, x)
    ELSE Append(InsertMarket(s, SubSeq(sorted, 1, Len(sorted) - 1), x), sorted[Len(sorted)])

RECURSIVE SortMarkets(_, _, _)
SortMarkets(s, list, n) ==
    IF n = 0 THEN <<>>
    ELSE InsertMarket(s, SortMarkets(s, list, n - 1), list[n])

RECURSIVE Reverse(_)
Reverse(list) == IF list = <<>> THEN <<>> ELSE Append(Reverse(Tail(list)), Head(list))

\* sortFilteredMarkets sorting ascending and reversing the array for a
\* descending sort.
sortFilteredMarkets_ReverseForDescending(s) ==
    LET up == SortMarkets([s EXCEPT !.sortAscending = TRUE], s.filteredMarkets,
                          Len(s.filteredMarkets))
    IN  [s EXCEPT !.filteredMarkets = IF s.sortAscending THEN up ELSE Reverse(up)]

sortFilteredMarkets(s) ==
    [s EXCEPT !.filteredMarkets = SortMarkets(s, @, Len(@))]

\* applyFilters with filteredMarkets sharing the array of markets when no market
\* is filtered out: the sort in place then reorders markets too.
applyFilters_SharedArray(s) ==
    LET kept == FilterMarkets(s, s.markets, 1)
        sorted == SortMarkets(s, kept, Len(kept))
    IN  IF Len(kept) = Len(s.markets)
        THEN [s EXCEPT !.filteredMarkets = sorted, !.markets = sorted]
        ELSE [s EXCEPT !.filteredMarkets = sorted]

applyFilters(s) ==
    sortFilteredMarkets([s EXCEPT !.filteredMarkets = FilterMarkets(s, s.markets, 1)])

\* updateDisplay: applyFilters, then the renderers, which read the state.
updateDisplay(s) == applyFilters(s)

\* What renderTable leaves in the body of the results table: the "No markets
\* found" row or one row for each market of filteredMarkets.
renderTable(s) == IF Len(s.filteredMarkets) = 0 THEN "no-results" ELSE "rows"

\* What showLoading and showError leave in the body of the results table,
\* whatever it showed before.
showLoading(shown) == "loading"

\* showError writing nothing.
showError_LeavesTable(shown) == shown

showError(shown) == "error"

\* populateRegionFilter: the distinct cities of the markets, sorted as strings.
RECURSIVE SortStrings(_)
SortStrings(set) ==
    IF set = {} THEN <<>>
    ELSE LET least == CHOOSE x \in set : \A y \in set : ~StrLess(y, x)
         IN  << least >> \o SortStrings(set \ {least})

\* populateRegionFilter without the sort: the distinct cities in sheet order.
populateRegionFilter_SheetOrder(s) ==
    WithoutRepeats([i \in 1..Len(s.markets) |-> s.markets[i].city])

populateRegionFilter(s) == SortStrings({s.markets[i].city : i \in 1..Len(s.markets)})

-----------------------------------------------------------------------------
(* The page: state object, data fetch and event listeners                  *)

VARIABLES
    state,        \* the state object of the script
    tbody,        \* what the body of the results table shows
    cityOptions,  \* the options appended to the city filter control
    page,         \* "script": state built; "ready": DOMContentLoaded handled
    fetch,        \* "idle", "pending" (awaiting fetch), "reading" (awaiting
                  \* response.text()), "loaded" or "failed"
    response,     \* the response of the fetch, once there is one
    caught,       \* the error the catch block of fetchAndProcessData caught:
                  \* "none", "network", "status" or "html"
    fetchCount,   \* the number of calls of fetch
    input,        \* the argument of a function applied on its own
    output,       \* the value the function returned for it
    applied       \* has the function been applied to the input ?

vars ==
    << state, tbody, cityOptions, page, fetch, response, caught, fetchCount,
       input, output, applied >>

\* The header line of the sheet (its content is never read). name,lat,lon
HeaderLine ==
    << "n", "a", "m", "e", ",", "l", "a", "t", ",", "l", "o", "n" >>

\* Yule Fair,39.7,-105,Metro,80202,"1 Elm, Denver, CO 80202",Dec. 13-14,$5,,Gifts
RowYule ==
    << "Y", "u", "l", "e", " ", "F", "a", "i", "r", ",", "3", "9", ".", "7", ",", "-", "1",
       "0", "5", ",", "M", "e", "t", "r", "o", ",", "8", "0", "2", "0", "2", ",", "\"", "1",
       " ", "E", "l", "m", ",", " ", "D", "e", "n", "v", "e", "r", ",", " ", "C", "O", " ",
       "8", "0", "2", "0", "2", "\"", ",", "D", "e", "c", ".", " ", "1", "3", "-", "1", "4",
       ",", "$", "5", ",", ",", "G", "i", "f", "t", "s" >>

\* apple Fest,40,-105.3,,,"Boulder, CO",TBD,,,gifts
RowApple ==
    << "a", "p", "p", "l", "e", " ", "F", "e", "s", "t", ",", "4", "0", ",", "-", "1", "0",
       "5", ".", "3", ",", ",", ",", "\"", "B", "o", "u", "l", "d", "e", "r", ",", " ", "C",
       "O", "\"", ",", "T", "B", "D", ",", ",", ",", "g", "i", "f", "t", "s" >>

\* Zoo Lights,39.75,-104.9,Metro,,"Denver, CO",Nov 1|Nov 2
RowZoo ==
    << "Z", "o", "o", " ", "L", "i", "g", "h", "t", "s", ",", "3", "9", ".", "7", "5", ",",
       "-", "1", "0", "4", ".", "9", ",", "M", "e", "t", "r", "o", ",", ",", "\"", "D", "e",
       "n", "v", "e", "r", ",", " ", "C", "O", "\"", ",", "N", "o", "v", " ", "1", "|", "N",
       "o", "v", " ", "2" >>

\* Bazaar,0,-105.1,,,"Golden, CO",Dec. 13
RowZeroLat ==
    << "B", "a", "z", "a", "a", "r", ",", "0", ",", "-", "1", "0", "5", ".", "1", ",", ",",
       ",", "\"", "G", "o", "l", "d", "e", "n", ",", " ", "C", "O", "\"", ",", "D", "e", "c",
       ".", " ", "1", "3" >>

\*  ,39,-105
RowNoName ==
    << " ", ",", "3", "9", ",", "-", "1", "0", "5" >>

\* Expo,39
RowShort ==
    << "E", "x", "p", "o", ",", "3", "9" >>

\* Fete,north,-105
RowTextLat ==
    << "F", "e", "t", "e", ",", "n", "o", "r", "t", "h", ",", "-", "1", "0", "5" >>

\* <!DOCTYPE html><title>Sign in</title>
BodyDoctype ==
    << "<", "!", "D", "O", "C", "T", "Y", "P", "E", " ", "h", "t", "m", "l", ">", "<", "t",
       "i", "t", "l", "e", ">", "S", "i", "g", "n", " ", "i", "n", "<", "/", "t", "i", "t",
       "l", "e", ">" >>

\* <html lang="en"><body>Sign in</body>
BodyHtmlTag ==
    << "<", "h", "t", "m", "l", " ", "l", "a", "n", "g", "=", "\"", "e", "n", "\"", ">", "<",
       "b", "o", "d", "y", ">", "S", "i", "g", "n", " ", "i", "n", "<", "/", "b", "o", "d",
       "y", ">" >>

\* GIFT
SearchGift ==
    << "G", "I", "F", "T" >>

\* denver
SearchDenver ==
    << "d", "e", "n", "v", "e", "r" >>

\* <!DOCTYPE
DoctypeMark ==
    << "<", "!", "D", "O", "C", "T", "Y", "P", "E" >>

\* <html
HtmlMark ==
    << "<", "h", "t", "m", "l" >>

\* Lines joined by line feeds.
RECURSIVE JoinLines(_)
JoinLines(lines) ==
    IF Len(lines) = 1 THEN lines[1]
    ELSE lines[1] \o << "\n" >> \o JoinLines(Tail(lines))

\* Response bodies the sheet export can deliver.
BodyMixed ==
    JoinLines(<< HeaderLine, RowYule, RowNoName, RowApple, RowZeroLat, RowZoo, RowShort >>)
BodyTwins == JoinLines(<< HeaderLine, RowZoo, RowYule, RowYule >>)
BodyNoValidRow == JoinLines(<< HeaderLine, RowTextLat, RowNoName >>)
BodyEmpty == << >>

Bodies == { BodyMixed, BodyTwins, BodyNoValidRow, HeaderLine, BodyEmpty, BodyDoctype, BodyHtmlTag }

\* Texts typed into the search box.
SearchTexts == { << >>, SearchGift, SearchDenver }

\* Instants at which the script reads the clock first: Friday October 31 10:00
\* (before the weekend in which daylight saving time ends) and Saturday
\* December 13 23:00 (the last hour of a Saturday), local time.
OpeningTimes ==
    { FromWall(DaysFromCivil(SeasonYear, 9, 31) * 24 + 10),
      FromWall(DaysFromCivil(SeasonYear, 11, 13) * 24 + 23) }

\* Whole hours by which the clock has advanced since the script read it first,
\* with new Date() for today, at a later read: Date.now() for tomorrow, then
\* new Date() in calculateWeekendDates.
ClockAdvances == { 0, 1 }

\* The state object as the script builds it: the clock reads now for today and,
\* read again for tomorrow, later.
InitialState(now, later) ==
    [ markets |-> << >>,
      filteredMarkets |-> << >>,
      selectedMarket |-> Null,
      sortColumn |-> ColName,
      sortAscending |-> TRUE,
      currentFilters |-> [search |-> << >>, city |-> << >>, dateFilter |-> << >>],
      today |-> now,
      tomorrow |-> AddMs(later, MsPerDay),
      weekendStart |-> Null,
      weekendEnd |-> Null ]

calculateWeekendDates(s, now) ==
    LET dayOfWeek == getDay(now)
        toSaturday == (6 - dayOfWeek + 7) % 7
        daysUntilSaturday == IF toSaturday = 0 THEN 7 ELSE toSaturday
        weekendStart == AddMs(now, daysUntilSaturday * MsPerDay)
    IN  [s EXCEPT !.weekendStart = weekendStart,
                  !.weekendEnd = AddMs(weekendStart, MsPerDay)]

\* The test looking for the whole tag <html> instead of its opening.
IsNotCSV_WholeTagOnly(csv) ==
    ~StringIsTruthy(csv) \/ Includes(csv, DoctypeMark) \/ Includes(csv, HtmlMark \o << ">" >>)

\* The test of fetchAndProcessData for a body that is no CSV.
IsNotCSV(csv) ==
    ~StringIsTruthy(csv) \/ Includes(csv, DoctypeMark) \/ Includes(csv, HtmlMark)

\* The listeners of setupEventListeners, as changes of the state object.
\* The search listener closing the selection as well.
onSearchInput_ClearsSelection(s, value) ==
    updateDisplay([s EXCEPT !.currentFilters.search = value, !.selectedMarket = Null])

onSearchInput(s, value) == updateDisplay([s EXCEPT !.currentFilters.search = value])

onCityChange(s, value) == updateDisplay([s EXCEPT !.currentFilters.city = value])

\* The sort listener without its call of updateDisplay.
onSortClick_NoRefresh(s, column) ==
    IF s.sortColumn = column
    THEN [s EXCEPT !.sortAscending = ~@]
    ELSE [s EXCEPT !.sortColumn = column, !.sortAscending = TRUE]

\* The sort listener without the reset of the direction for another column.
onSortClick_KeepsDirection(s, column) ==
    updateDisplay(IF s.sortColumn = column
                  THEN [s EXCEPT !.sortAscending = ~@]
                  ELSE [s EXCEPT !.sortColumn = column])

onSortClick(s, column) ==
    updateDisplay(IF s.sortColumn = column
                  THEN [s EXCEPT !.sortAscending = ~@]
                  ELSE [s EXCEPT !.sortColumn = column, !.sortAscending = TRUE])

\* toggleQuickFilter without the branch that clears the filter.
toggleQuickFilter_NeverClears(s, filter) ==
    updateDisplay([s EXCEPT !.currentFilters.dateFilter = filter])

toggleQuickFilter(s, filter) ==
    updateDisplay(IF s.currentFilters.dateFilter = filter
                  THEN [s EXCEPT !.currentFilters.dateFilter = << >>]
                  ELSE [s EXCEPT !.currentFilters.dateFilter = filter])

selectMarket(s, market) == [s EXCEPT !.selectedMarket = market]

closeDetails(s) == [s EXCEPT !.selectedMarket = Null]

\* fetchAndProcessData after the body text has arrived and passed the test.
processData(s, csv) == updateDisplay([s EXCEPT !.markets = parseCSV(csv)])

AppUnchanged ==
    UNCHANGED << state, tbody, cityOptions, page, fetch, response, caught, fetchCount >>
HarnessUnchanged == UNCHANGED << input, output, applied >>

\* The page once the script has built the state object at one of the instants,
\* the clock advancing by one of the advances between its two reads.
PageOpened(instants, advances) ==
    /\ state \in { InitialState(now, now + a) : now \in instants, a \in advances }
    /\ tbody = "static"
    /\ cityOptions = << >>
    /\ page = "script"
    /\ fetch = "idle"
    /\ response = Null
    /\ caught = "none"
    /\ fetchCount = 0

Init ==
    /\ PageOpened(OpeningTimes, ClockAdvances)
    /\ input = << >>
    /\ output = << >>
    /\ applied = FALSE

\* The DOMContentLoaded listener: the weekend dates, the start of the fetch
\* (showLoading, then fetch is called and awaited) and the event listeners.
\* calculateWeekendDates reads the clock again, at the instant the listener runs,
\* which is not before the read of Date.now() for tomorrow, one day before
\* state.tomorrow.
DOMContentLoaded ==
    /\ page = "script"
    /\ \E advance \in ClockAdvances :
           /\ state.today + advance >= AddMs(state.tomorrow, 0 - MsPerDay)
           /\ state' = calculateWeekendDates(state, state.today + advance)
    /\ tbody' = showLoading(tbody)
    /\ fetch' = "pending"
    /\ fetchCount' = fetchCount + 1
    /\ page' = "ready"
    /\ UNCHANGED << cityOptions, response, caught >>
    /\ HarnessUnchanged

\* fetch rejects (network error): the catch block shows the error.
FetchRejects ==
    /\ fetch = "pending"
    /\ fetch' = "failed"
    /\ caught' = "network"
    /\ tbody' = showError(tbody)
    /\ UNCHANGED << state, cityOptions, page, response, fetchCount >>
    /\ HarnessUnchanged

\* fetch resolves with a response; a status that is not ok throws.
FetchResponds ==
    /\ fetch = "pending"
    /\ \E ok \in BOOLEAN : \E body \in (IF ok THEN Bodies ELSE { BodyDoctype }) :
           /\ response' = [ok |-> ok, body |-> body]
           /\ IF ok
              THEN fetch' = "reading" /\ UNCHANGED << tbody, caught >>
              ELSE fetch' = "failed" /\ caught' = "status" /\ tbody' = showError(tbody)
    /\ UNCHANGED << state, cityOptions, page, fetchCount >>
    /\ HarnessUnchanged

\* response.text() rejects.
TextRejects ==
    /\ fetch = "reading"
    /\ fetch' = "failed"
    /\ caught' = "network"
    /\ tbody' = showError(tbody)
    /\ UNCHANGED << state, cityOptions, page, response, fetchCount >>
    /\ HarnessUnchanged

\* response.text() resolves: the test of the body, parseCSV,
\* populateRegionFilter and updateDisplay.
TextArrives ==
    /\ fetch = "reading"
    /\ IF IsNotCSV(response.body)
       THEN /\ fetch' = "failed"
            /\ caught' = "html"
            /\ tbody' = showError(tbody)
            /\ UNCHANGED << state, cityOptions >>
       ELSE /\ fetch' = "loaded"
            /\ caught' = "none"
            /\ state' = processData(state, response.body)
            /\ cityOptions' = cityOptions \o populateRegionFilter(state')
            /\ tbody' = renderTable(state')
    /\ UNCHANGED << page, response, fetchCount >>
    /\ HarnessUnchanged

SearchInput ==
    /\ page = "ready"
    /\ \E value \in SearchTexts : state' = onSearchInput(state, value)
    /\ tbody' = renderTable(state')
    /\ UNCHANGED << cityOptions, page, fetch, response, caught, fetchCount >>
    /\ HarnessUnchanged

\* The control offers the empty value and the options appended to it.
CityChange ==
    /\ page = "ready"
    /\ \E value \in { << >> } \cup { cityOptions[i] : i \in 1..Len(cityOptions) } :
           state' = onCityChange(state, value)
    /\ tbody' = renderTable(state')
    /\ UNCHANGED << cityOptions, page, fetch, response, caught, fetchCount >>
    /\ HarnessUnchanged

SortClick ==
    /\ page = "ready"
    /\ \E column \in { ColName, ColDate, ColCity } : state' = onSortClick(state, column)
    /\ tbody' = renderTable(state')
    /\ UNCHANGED << cityOptions, page, fetch, response, caught, fetchCount >>
    /\ HarnessUnchanged

QuickFilterClick ==
    /\ page = "ready"
    /\ \E filter \in { Today, Tomorrow, Weekend } : state' = toggleQuickFilter(state, filter)
    /\ tbody' = renderTable(state')
    /\ UNCHANGED << cityOptions, page, fetch, response, caught, fetchCount >>
    /\ HarnessUnchanged

\* A click on a table row or on a map marker: both exist for the markets of
\* filteredMarkets.
SelectMarket ==
    /\ page = "ready"
    /\ \E i \in 1..Len(state.filteredMarkets) :
           state' = selectMarket(state, state.filteredMarkets[i])
    /\ UNCHANGED << tbody, cityOptions, page, fetch, response, caught, fetchCount >>
    /\ HarnessUnchanged

\* The close button, the overlay or the Escape key.
CloseDetails ==
    /\ page = "ready"
    /\ state' = closeDetails(state)
    /\ UNCHANGED << tbody, cityOptions, page, fetch, response, caught, fetchCount >>
    /\ HarnessUnchanged

Next ==
    \/ DOMContentLoaded
    \/ FetchRejects
    \/ FetchResponds
    \/ TextRejects
    \/ TextArrives
    \/ SearchInput
    \/ CityChange
    \/ SortClick
    \/ QuickFilterClick
    \/ SelectMarket
    \/ CloseDetails

Spec == Init /\ [][Next]_vars

-----------------------------------------------------------------------------
(* parseCSV on its own: a header line and one data row                     *)

\* The characters of the data rows and the longest row.
RowAlphabet == { "A", " ", "0", "1", ".", ",", "\"" }
MaxRowLen == 5

StringsUpTo(alphabet, n) == UNION { [1..k -> alphabet] : k \in 0..n }

CsvTexts == { HeaderLine \o << "\n" >> \o row : row \in StringsUpTo(RowAlphabet, MaxRowLen) }

InitCSV ==
    /\ PageOpened({ NewDate(SeasonYear, 11, 13) }, { 0 })
    /\ input \in CsvTexts
    /\ output = << >>
    /\ applied = FALSE

ApplyParseCSV ==
    /\ ~applied
    /\ output' = parseCSV(input)
    /\ applied' = TRUE
    /\ UNCHANGED input
    /\ AppUnchanged

NextCSV == ApplyParseCSV

SpecCSV == InitCSV /\ [][NextCSV]_vars

-----------------------------------------------------------------------------
(* parseCSV on its own: sheets of several lines                            *)

\* The lines of the sheets and the most lines of a sheet, the first included.
SheetLines == { HeaderLine, RowYule, RowZoo, RowZeroLat, RowNoName, RowShort }
MaxSheetLines == 3

InitSheets ==
    /\ PageOpened({ NewDate(SeasonYear, 11, 13) }, { 0 })
    /\ input \in { JoinLines(lines) :
                      lines \in UNION { [1..n -> SheetLines] : n \in 1..MaxSheetLines } }
    /\ output = << >>
    /\ applied = FALSE

SpecSheets == InitSheets /\ [][ApplyParseCSV]_vars

-----------------------------------------------------------------------------
(* parseMarketDates on its own: date texts of one or more ranges           *)

DigitSeq == << "0", "1", "2", "3", "4", "5", "6", "7", "8", "9" >>

\* The decimal digits of a natural number.
RECURSIVE DigitsOf(_)
DigitsOf(n) ==
    IF n < 10 THEN << DigitSeq[n + 1] >>
    ELSE DigitsOf(n \div 10) \o << DigitSeq[(n % 10) + 1] >>

\* The sides of a range.  A full side is a month abbreviation, with or without
\* a dot, white space and a day number ("Nov. 28", "dec 1"); a bare side is a
\* day number ("14"); a dashed side is a full side followed by a dash and a day
\* number ("dec. 13-14"); the last is a text without a date ("TBD").
WrittenMonths == { [mon |-> 10, word |-> << "N", "o", "v" >>],
                   [mon |-> 11, word |-> << "d", "e", "c" >>] }
WrittenDays == { 1, 13, 14, 30, 32 }

Side(kind, m, dot, day, tail) ==
    [kind |-> kind, mon |-> m.mon, word |-> m.word, dot |-> dot, day |-> day, tail |-> tail]

NoMonth == [mon |-> 0, word |-> << >>]

FullSides == { Side("full", m, dot, d, 0) : m \in WrittenMonths, dot \in BOOLEAN, d \in WrittenDays }
BareSides == { Side("bare", NoMonth, FALSE, d, 0) : d \in WrittenDays }
NoDateSide == Side("text", NoMonth, FALSE, 0, 0)
DashedSides == { Side("dashed", m, dot, 13, 14) : m \in WrittenMonths, dot \in BOOLEAN }

SideText(side) ==
    LET full == side.word \o (IF side.dot THEN << "." >> ELSE << >>) \o << " " >>
                    \o DigitsOf(side.day)
    IN  CASE side.kind = "full" -> full
          [] side.kind = "bare" -> DigitsOf(side.day)
          [] side.kind = "dashed" -> full \o << "-" >> \o DigitsOf(side.tail)
          [] side.kind = "text" -> << "T", "B", "D" >>

\* A range: one side, or two sides around a dash or a pipe.
Fragment(sep, left, right) == [sep |-> sep, left |-> left, right |-> right]

SingleFragments == { Fragment("", x, x) : x \in FullSides \cup BareSides \cup { NoDateSide } }
TwoSidedFragments ==
    { Fragment(sep, l, r) :
        sep \in { "-", "|" },
        l \in FullSides \cup BareSides \cup DashedSides \cup { NoDateSide },
        r \in FullSides \cup BareSides \cup { NoDateSide } }

FragmentText(f) ==
    IF f.sep = "" THEN SideText(f.left)
    ELSE SideText(f.left) \o << f.sep >> \o SideText(f.right)

\* The ranges of the date texts of several ranges: "dec. 13-14", "dec. 14",
\* "Nov 30|dec 1", "Nov. 30-dec. 1", "dec. 14-13" and "TBD".
ListedFragments ==
    LET nov == CHOOSE m \in WrittenMonths : m.mon = 10
        dec == CHOOSE m \in WrittenMonths : m.mon = 11
    IN  { Fragment("-", Side("full", dec, TRUE, 13, 0), Side("bare", NoMonth, FALSE, 14, 0)),
          Fragment("", Side("full", dec, TRUE, 14, 0), Side("full", dec, TRUE, 14, 0)),
          Fragment("|", Side("full", nov, FALSE, 30, 0), Side("full", dec, FALSE, 1, 0)),
          Fragment("-", Side("full", nov, TRUE, 30, 0), Side("full", dec, TRUE, 1, 0)),
          Fragment("-", Side("full", dec, TRUE, 14, 0), Side("bare", NoMonth, FALSE, 13, 0)),
          Fragment("", NoDateSide, NoDateSide) }

\* The longest list of ranges in a date text.
MaxFragments == 2

FragmentLists ==
    { << f >> : f \in SingleFragments \cup TwoSidedFragments }
        \cup UNION { [1..n -> ListedFragments] : n \in 2..MaxFragments }

\* The ranges joined by a comma and a space, as the sheet writes them.
RECURSIVE DateText(_)
DateText(fs) ==
    IF Len(fs) = 1 THEN FragmentText(fs[1])
    ELSE FragmentText(fs[1]) \o << ",", " " >> \o DateText(Tail(fs))

\* A sheet of one data row with a name, coordinates and the date text in the
\* seventh column, quoted.
RowWithDate(text) ==
    HeaderLine \o << "\n", "A", ",", "1", ",", "1", ",", ",", ",", ",", "\"" >>
        \o text \o << "\"" >>

InitDates ==
    /\ PageOpened({ NewDate(SeasonYear, 11, 13) }, { 0 })
    /\ input \in { [fragments |-> fs, text |-> DateText(fs)] : fs \in FragmentLists }
    /\ output = << >>
    /\ applied = FALSE

\* parseMarketDates on the text, and parseCSV on a row that holds the text.
ApplyParseMarketDates ==
    /\ ~applied
    /\ output' = [dates |-> parseMarketDates(input.text),
                  markets |-> parseCSV(RowWithDate(input.text))]
    /\ applied' = TRUE
    /\ UNCHANGED input
    /\ AppUnchanged

SpecDates == InitDates /\ [][ApplyParseMarketDates]_vars

-----------------------------------------------------------------------------
(* parseCSVLine on its own: lines written from fields                      *)

\* The characters of the fields, the longest field and the most fields of a line.
FieldAlphabet == { " ", ",", "\"" }
MaxFieldLen == 2
MaxFields == 2

\* A field as a line holds it: between double quotes, with each double quote
\* of the field doubled.
RECURSIVE DoubleQuotes(_)
DoubleQuotes(field) ==
    IF field = << >> THEN << >>
    ELSE (IF Head(field) = "\"" THEN << "\"", "\"" >> ELSE << Head(field) >>)
             \o DoubleQuotes(Tail(field))

QuoteField(field) == << "\"" >> \o DoubleQuotes(field) \o << "\"" >>

\* The line of the fields: the quoted fields joined by commas.
RECURSIVE Serialize(_)
Serialize(fields) ==
    IF Len(fields) = 1 THEN QuoteField(fields[1])
    ELSE QuoteField(fields[1]) \o << "," >> \o Serialize(Tail(fields))

InitFields ==
    /\ PageOpened({ NewDate(SeasonYear, 11, 13) }, { 0 })
    /\ input \in UNION { [1..n -> StringsUpTo(FieldAlphabet, MaxFieldLen)] : n \in 1..MaxFields }
    /\ output = << >>
    /\ applied = FALSE

ApplyParseCSVLine ==
    /\ ~applied
    /\ output' = parseCSVLine(Serialize(input))
    /\ applied' = TRUE
    /\ UNCHANGED input
    /\ AppUnchanged

SpecFields == InitFields /\ [][ApplyParseCSVLine]_vars

-----------------------------------------------------------------------------
(* parseCSVLine on its own: any line                                       *)

\* The characters of the lines and the longest line.
LineAlphabet == { "a", ",", "\"" }
MaxLineLen == 5

InitLines ==
    /\ PageOpened({ NewDate(SeasonYear, 11, 13) }, { 0 })
    /\ input \in StringsUpTo(LineAlphabet, MaxLineLen)
    /\ output = << >>
    /\ applied = FALSE

ApplyParseCSVLineToLine ==
    /\ ~applied
    /\ output' = parseCSVLine(input)
    /\ applied' = TRUE
    /\ UNCHANGED input
    /\ AppUnchanged

SpecLines == InitLines /\ [][ApplyParseCSVLineToLine]_vars

-----------------------------------------------------------------------------
(* extractCityFromAddress on its own: addresses written from segments      *)

\* The segments of the addresses: a state with a postal code, a state alone, a
\* state and a postal code written together, a state with a postal code after
\* another letter, a city, a street with its number, an empty one and a blank.
SegStateZip == << "C", "O", " ", "8", "0", "2", "0", "2" >>
SegState == << "C", "O" >>
SegJoined == << "C", "O", "8", "0", "2", "0", "2" >>
SegPrefixed == << "X", "C", "O", " ", "8", "0", "2", "0", "2" >>
SegCity == << "D", "e", "n", "v", "e", "r" >>
SegStreet == << "5", " ", "E", "l", "m" >>
SegEmpty == << >>
SegBlank == << " " >>

Segments ==
    { SegStateZip, SegState, SegJoined, SegPrefixed, SegCity, SegStreet, SegEmpty, SegBlank }

\* The most segments of an address.
MaxSegments == 3

\* The segments joined by a comma and a space.
RECURSIVE AddressText(_)
AddressText(segments) ==
    IF Len(segments) = 1 THEN segments[1]
    ELSE segments[1] \o << ",", " " >> \o AddressText(Tail(segments))

InitAddresses ==
    /\ PageOpened({ NewDate(SeasonYear, 11, 13) }, { 0 })
    /\ input \in { [segments |-> ss, text |-> AddressText(ss)] :
                      ss \in UNION { [1..n -> Segments] : n \in 1..MaxSegments } }
    /\ output = << >>
    /\ applied = FALSE

ApplyExtractCity ==
    /\ ~applied
    /\ output' = extractCityFromAddress(input.text)
    /\ applied' = TRUE
    /\ UNCHANGED input
    /\ AppUnchanged

SpecAddresses == InitAddresses /\ [][ApplyExtractCity]_vars

-----------------------------------------------------------------------------
(* Properties of the page                                                  *)

Markets == state.markets
View == state.filteredMarkets

\* Is the market object m one of the elements of the view ?
InView(m) == \E j \in 1..Len(View) : View[j] = m

\* The state with nothing left of the events so far but markets, the filters,
\* the sort column and the sort direction (and the dates of the session).
RecomputeInputs ==
    [state EXCEPT !.filteredMarkets = << >>, !.selectedMarket = Null]

\* C2: in every state, before and after the data arrive and after every user
\* event, filteredMarkets is what applyFilters computes from the current markets,
\* filters, sort column and sort direction alone: the view is never stale, and
\* within a session it is a function of these four.
C2_ViewIsRecomputed == View = applyFilters(RecomputeInputs).filteredMarkets

\* C2 witness: data are loaded, a search text and a date filter are set, the sort
\* is by city, and the view is a reordered part of the markets.
C2_Witness ==
    /\ fetch = "loaded"
    /\ state.currentFilters.search # << >>
    /\ state.currentFilters.dateFilter # << >>
    /\ state.sortColumn = ColCity
    /\ Len(View) >= 2 /\ Len(View) < Len(Markets)
    /\ View[1].ref > View[2].ref

\* C3: a market is in the view if and only if it passes the search test and the
\* city test and the date test.
C3_FiltersAreConjunctive ==
    \A i \in 1..Len(Markets) :
        InView(Markets[i]) <=>
            /\ matchesSearch(state, Markets[i])
            /\ matchesCity(state, Markets[i])
            /\ matchesDate(state, Markets[i])

\* C3 witness: with a city filter and a date filter set, a market without dates
\* passes the date test and is kept out of the view by its city, while a market
\* of the chosen city that is open on the date is in the view.
C3_Witness ==
    /\ state.currentFilters.city # << >>
    /\ state.currentFilters.dateFilter = Today
    /\ \E i \in 1..Len(Markets) :
           /\ Markets[i].dates = << >>
           /\ Markets[i].city # state.currentFilters.city
           /\ matchesSearch(state, Markets[i])
           /\ ~InView(Markets[i])
    /\ \E i \in 1..Len(Markets) : Markets[i].dates # << >> /\ InView(Markets[i])

\* C4: a market whose dates are empty passes the date test for every date
\* filter, whatever the reference dates of the session are, so whether it is in
\* the view depends on the search text and the city alone.
C4_OpenScheduleExemption ==
    page = "ready" =>
        \A i \in 1..Len(Markets) :
            Markets[i].dates = << >> =>
                /\ \A f \in { Today, Tomorrow, Weekend } :
                       marketIsOpenOnDate(state, Markets[i], f)
                /\ matchesDate(state, Markets[i])
                /\ InView(Markets[i]) <=>
                       (matchesSearch(state, Markets[i]) /\ matchesCity(state, Markets[i]))

\* C4 witness: a date filter is set, it keeps a dated market out of the view, and
\* a market without dates is in the view.
C4_Witness ==
    /\ state.currentFilters.dateFilter # << >>
    /\ \E i \in 1..Len(Markets) : Markets[i].dates = << >> /\ InView(Markets[i])
    /\ \E i \in 1..Len(Markets) :
           /\ Markets[i].dates # << >>
           /\ matchesSearch(state, Markets[i]) /\ matchesCity(state, Markets[i])
           /\ ~InView(Markets[i])

\* C5: two markets of the view with equal sort values are in the order they have
\* in markets (the order of their lines in the sheet).
C5_SortIsStable ==
    /\ \A i \in 1..Len(Markets) : \A j \in (i + 1)..Len(Markets) :
           Markets[i].ref < Markets[j].ref
    /\ \A p \in 1..Len(View) : \A q \in (p + 1)..Len(View) :
           SortValue(state, View[p]) = SortValue(state, View[q]) =>
               View[p].ref < View[q].ref

\* C5 witness: a descending sort of a view that holds two markets with equal sort
\* values and, before them, one with a greater value that came later in the sheet.
C5_Witness ==
    /\ ~state.sortAscending
    /\ \E p \in 1..Len(View) : \E q \in (p + 1)..Len(View) :
           SortValue(state, View[p]) = SortValue(state, View[q])
    /\ \E p \in 1..Len(View) : \E q \in (p + 1)..Len(View) :
           /\ SortValue(state, View[p]) # SortValue(state, View[q])
           /\ View[p].ref > View[q].ref

\* The sort key as the claim C6 words it: the name as it is, the date text and
\* the city in lower case.
ClaimedSortKey(market) ==
    CASE state.sortColumn = ColName -> market.name
      [] state.sortColumn = ColDate -> ToLowerCase(market.date)
      [] state.sortColumn = ColCity -> ToLowerCase(market.city)

\* C6 as claimed: the view is ordered by the name as it is (by the lower-cased
\* date text or city), ascending or descending as sortAscending says.
C6_ViewOrderedByKeyAsClaimed ==
    \A p \in 1..(Len(View) - 1) :
        IF state.sortAscending
        THEN ~StrLess(ClaimedSortKey(View[p + 1]), ClaimedSortKey(View[p]))
        ELSE ~StrLess(ClaimedSortKey(View[p]), ClaimedSortKey(View[p + 1]))

\* C6 amended: the view is ordered by the lower-cased name, the lower-cased date
\* text or the lower-cased city, ascending or descending as sortAscending says.
C6_ViewOrderedByLowerCaseKey ==
    \A p \in 1..(Len(View) - 1) :
        IF state.sortAscending
        THEN ~StrLess(SortValue(state, View[p + 1]), SortValue(state, View[p]))
        ELSE ~StrLess(SortValue(state, View[p]), SortValue(state, View[p + 1]))

\* C6 witness: a descending sort by name of three markets with three different
\* names, in an order that differs from that of the sheet.
C6_Witness ==
    /\ state.sortColumn = ColName /\ ~state.sortAscending
    /\ Len(View) = 3
    /\ StrLess(SortValue(state, View[3]), SortValue(state, View[2]))
    /\ StrLess(SortValue(state, View[2]), SortValue(state, View[1]))
    /\ View[1].ref > View[2].ref

\* C7: markets changes in one step only, the arrival of the body of the one
\* fetch, from the empty array; once the fetch is over no step changes it; and
\* fetch is called once, by the DOMContentLoaded listener, never by a user event.
C7_MarketsWrittenOnce ==
    [][ /\ state'.markets # state.markets =>
               fetch = "reading" /\ fetch' = "loaded" /\ state.markets = << >>
        /\ fetch \in { "loaded", "failed" } => state'.markets = state.markets
        /\ fetchCount' # fetchCount => page = "script" /\ fetchCount = 0 /\ fetchCount' = 1
      ]_vars

\* C7 witness: after the load, user events have filtered, re-sorted and selected:
\* the view is in another order than markets.
C7_Witness ==
    /\ fetch = "loaded"
    /\ Len(Markets) = 3 /\ Len(View) = 3 /\ View # Markets
    /\ state.currentFilters.search # << >>
    /\ state.selectedMarket # Null
    /\ fetchCount = 1

\* C8: once the fetch has failed, markets and the view are empty in every later
\* state, whatever the user does; the failing step shows the error message; and
\* the fetch stays failed, with no further call of fetch.
C8_FailedFetchLeavesCatalogEmpty ==
    /\ [](fetch = "failed" => Markets = << >> /\ View = << >> /\ fetchCount = 1)
    /\ [][ /\ fetch # "failed" /\ fetch' = "failed" => tbody' = "error"
           /\ fetch = "failed" => fetch' = "failed" /\ fetchCount' = fetchCount
         ]_vars

\* C8 witness: the fetch failed on a body that is an HTML page, and the user has
\* since typed a search text and set a date filter.
C8_Witness ==
    /\ fetch = "failed" /\ caught = "html"
    /\ state.currentFilters.search # << >>
    /\ state.currentFilters.dateFilter # << >>

\* C9: while the fetch is pending (no response yet, or its body not yet read),
\* the results table shows the loading row.
C9_LoadingShownWhilePending ==
    fetch \in { "pending", "reading" } => tbody = "loading"

\* <html>
HtmlWholeTag == HtmlMark \o << ">" >>

\* Has the body of a response with an ok status been read ?
BodyWasRead == fetch \in { "loaded", "failed" } /\ caught \in { "none", "html" }

\* C10 as claimed: a body that was read is refused (error caught, markets left
\* empty) exactly when it contains <!DOCTYPE or <html>.
C10_RefusedIffDoctypeOrWholeTag ==
    BodyWasRead =>
        (caught = "html" <=>
            Includes(response.body, DoctypeMark) \/ Includes(response.body, HtmlWholeTag))

\* C10 amended: a body that was read is refused (not parsed, markets left as they
\* were, error shown by that step) exactly when it is empty or contains <!DOCTYPE
\* or <html (the opening of the tag); every other body is given to parseCSV and
\* its result becomes markets.
C10_RefusedIffEmptyOrHtmlOpening ==
    /\ [](BodyWasRead =>
            IF \/ response.body = << >>
               \/ Includes(response.body, DoctypeMark)
               \/ Includes(response.body, HtmlMark)
            THEN fetch = "failed" /\ caught = "html" /\ Markets = << >>
            ELSE fetch = "loaded" /\ caught = "none" /\ Markets = parseCSV(response.body))
    /\ [][ fetch = "reading" /\ caught' = "html" =>
               tbody' = "error" /\ state' = state ]_vars

\* C10 witness: a page that opens with <html lang="en">, without <!DOCTYPE and
\* without <html>, has been refused, and the user has gone on filtering.
C10_Witness ==
    /\ fetch = "failed" /\ caught = "html"
    /\ response.ok /\ response.body # << >>
    /\ ~Includes(response.body, DoctypeMark)
    /\ ~Includes(response.body, HtmlWholeTag)
    /\ state.currentFilters.dateFilter # << >>

-----------------------------------------------------------------------------
(* Properties of parseCSV                                                  *)

\* The data rows of a text: the lines of the trimmed text after the first.
DataRows(csv) == Tail(Split(Trim(csv), "\n"))

\* Does a token parse as a number ?
ParsesAsNumber(token) == parseFloat(token) # NaN

\* The condition of C1 on a row: at least three tokens, a name that is not
\* blank, and a latitude and a longitude that parse as numbers.
RowIsValid(row) ==
    LET tokens == parseCSVLine(row)
    IN  /\ Len(tokens) >= 3
        /\ Trim(tokens[1]) # << >>
        /\ ParsesAsNumber(tokens[2])
        /\ ParsesAsNumber(tokens[3])

\* C1: a data row yields a market if and only if it has at least three tokens, a
\* name that is not blank and a latitude and longitude that parse as numbers,
\* zero included.
C1_RowKeptIffValid ==
    applied =>
        \A i \in 1..Len(DataRows(input)) :
            (\E j \in 1..Len(output) : output[j].ref = i) <=> RowIsValid(DataRows(input)[i])

-----------------------------------------------------------------------------
(* Properties of the date filters                                          *)

\* The calendar day of an instant, as a day number (0 = January 1 of SeasonYear).
DayNumber(t) == WallHours(t) \div 24

\* A market open on the one calendar day with day number n.
ProbeMarket(n) == [dates |-> << FromWall(n * 24) >>]

\* The calendar days from the day before the page was opened to ten days later.
ProbeDays == (DayNumber(state.today) - 1)..(DayNumber(state.today) + 10)

\* The day number of the first Saturday strictly after the day today.
NextSaturday ==
    LET ahead == (6 - getDay(state.today) + 7) % 7
    IN  DayNumber(state.today) + (IF ahead = 0 THEN 7 ELSE ahead)

\* Has the market a date on one of the calendar days of the set ?
OpenOnOneOf(market, days) ==
    \E j \in 1..Len(market.dates) : DayNumber(market.dates[j]) \in days

\* C11: weekendStart is on the first Saturday strictly after today (1 to 7 days
\* ahead), weekendEnd on the Sunday that follows, and with the filter 'weekend'
\* a market with dates passes if and only if one of its dates is on that
\* Saturday or that Sunday.
C11_WeekendWindow ==
    page = "ready" =>
        /\ DayNumber(state.weekendStart) = NextSaturday
        /\ getDay(state.weekendStart) = 6
        /\ DayNumber(state.weekendStart) - DayNumber(state.today) \in 1..7
        /\ DayNumber(state.weekendEnd) = NextSaturday + 1
        /\ \A n \in ProbeDays :
               marketIsOpenOnDate(state, ProbeMarket(n), Weekend) <=>
                   n \in { NextSaturday, NextSaturday + 1 }
        /\ \A i \in 1..Len(Markets) :
               Markets[i].dates # << >> =>
                   (marketIsOpenOnDate(state, Markets[i], Weekend) <=>
                        OpenOnOneOf(Markets[i], { NextSaturday, NextSaturday + 1 }))

\* C12: with the filter 'today' a market with dates passes if and only if one of
\* its dates is on the calendar day of today, with 'tomorrow' if and only if one
\* is on the calendar day of the instant 86400000 ms after today; today and
\* tomorrow are set when the script builds the state and no step changes them.
C12_TodayAndTomorrow ==
    /\ [](/\ state.tomorrow = state.today + 24
          /\ \A n \in ProbeDays :
                 /\ marketIsOpenOnDate(state, ProbeMarket(n), Today) <=>
                        n = DayNumber(state.today)
                 /\ marketIsOpenOnDate(state, ProbeMarket(n), Tomorrow) <=>
                        n = DayNumber(state.today + 24)
          /\ \A i \in 1..Len(Markets) :
                 Markets[i].dates # << >> =>
                     /\ marketIsOpenOnDate(state, Markets[i], Today) <=>
                            OpenOnOneOf(Markets[i], { DayNumber(state.today) })
                     /\ marketIsOpenOnDate(state, Markets[i], Tomorrow) <=>
                            OpenOnOneOf(Markets[i], { DayNumber(state.today + 24) }))
    /\ [][state'.today = state.today /\ state'.tomorrow = state.tomorrow]_vars

-----------------------------------------------------------------------------
(* Properties of parseMarketDates                                          *)

\* Local midnight of the calendar day with day number n.
Midnight(n) == FromWall(n * 24)

\* The midnights of the calendar days a to b, in ascending order.
DaysFromTo(a, b) == IF b < a THEN << >> ELSE [k \in 1..(b - a + 1) |-> Midnight(a + k - 1)]

\* Does the side begin with a month and a day ?  A dot after the month is
\* accepted on the sides of a dash and in a single date, not on those of a pipe.
HasMonthAndDay(side, dotAccepted) ==
    side.kind \in { "full", "dashed" } /\ (dotAccepted \/ ~side.dot)

\* The day number of the month and day the side begins with.
SideDayNumber(side) == DaysFromCivil(SeasonYear, side.mon, side.day)

\* The day number of the end of a dash range: that of a full right side, or the
\* bare day of the right side in the month of the start.
DashEnd(f) ==
    IF f.right.kind = "full" THEN SideDayNumber(f.right)
    ELSE DaysFromCivil(SeasonYear, CivilFromDays(SideDayNumber(f.left)).month, f.right.day)

\* Does the range resolve to a start and an end ?
HasBothEnds(f) ==
    CASE f.sep = "|" -> HasMonthAndDay(f.left, FALSE) /\ HasMonthAndDay(f.right, FALSE)
      [] f.sep = "-" -> HasMonthAndDay(f.left, TRUE) /\ f.right.kind \in { "full", "bare" }
      [] f.sep = "" -> HasMonthAndDay(f.left, TRUE)

\* The dates the grammar of the date texts gives to one range.
ExpectedDates(f) ==
    IF ~HasBothEnds(f) THEN << >>
    ELSE CASE f.sep = "|" -> DaysFromTo(SideDayNumber(f.left), SideDayNumber(f.right))
           [] f.sep = "-" -> DaysFromTo(SideDayNumber(f.left), DashEnd(f))
           [] f.sep = "" -> << Midnight(SideDayNumber(f.left)) >>

RECURSIVE Concat(_)
Concat(seqs) == IF seqs = << >> THEN << >> ELSE Head(seqs) \o Concat(Tail(seqs))

\* The text parsed is one range; the range.
OneRange == Len(input.fragments) = 1
TheRange == input.fragments[1]

\* C13: a dash range whose two sides are a month and a day, the start not after
\* the end, yields every calendar day from the start to the end, both included,
\* in ascending order and one day apart, across the end of a month too; their
\* number is the number of days from the start to the end plus one.
C13_DashRangeOfTwoFullDates ==
    (applied /\ OneRange /\ TheRange.sep = "-"
        /\ TheRange.left.kind = "full" /\ TheRange.right.kind = "full"
        /\ SideDayNumber(TheRange.left) <= SideDayNumber(TheRange.right)) =>
        LET first == SideDayNumber(TheRange.left)
            last == SideDayNumber(TheRange.right)
        IN  /\ Len(output.dates) = last - first + 1
            /\ \A k \in 1..Len(output.dates) :
                   /\ DayNumber(output.dates[k]) = first + k - 1
                   /\ getHours(output.dates[k]) = 0
            /\ \A k \in 1..(Len(output.dates) - 1) : output.dates[k] < output.dates[k + 1]

\* C13 witness: "Nov. 30-dec. 1" has given November 30 and December 1.
C13_Witness ==
    /\ applied /\ OneRange /\ TheRange.sep = "-"
    /\ TheRange.left.kind = "full" /\ TheRange.right.kind = "full"
    /\ TheRange.left.mon = 10 /\ TheRange.left.day = 30
    /\ TheRange.right.mon = 11 /\ TheRange.right.day = 1
    /\ Len(output.dates) = 2
    /\ getMonth(output.dates[1]) = 10 /\ getDate(output.dates[1]) = 30
    /\ getMonth(output.dates[2]) = 11 /\ getDate(output.dates[2]) = 1

\* C14: the last dash of a range separates its sides; a right side that is a
\* bare day d2 is a day of the month of the left side, so that "<Mon>. d1-d2"
\* with d1 <= d2 (days of that month) yields the dates d1 to d2 of the month;
\* a range with a side that resolves to no date yields no date.
C14_DashRangeWithBareDay ==
    (applied /\ OneRange /\ TheRange.sep = "-") =>
        /\ (/\ TheRange.left.kind \in { "full", "dashed" }
            /\ TheRange.right.kind = "bare"
            /\ TheRange.left.day <= TheRange.right.day
            /\ TheRange.right.day <= DaysInMonth(SeasonYear, TheRange.left.mon)) =>
               output.dates =
                   [k \in 1..(TheRange.right.day - TheRange.left.day + 1) |->
                       NewDate(SeasonYear, TheRange.left.mon, TheRange.left.day + k - 1)]
        /\ (\/ TheRange.left.kind \in { "bare", "text" }
            \/ TheRange.right.kind = "text") =>
               output.dates = << >>

\* C14 witness: "dec. 13-14-30", cut at its last dash, has given the eighteen
\* days from December 13 to December 30.
C14_Witness ==
    /\ applied /\ OneRange /\ TheRange.sep = "-"
    /\ TheRange.left.kind = "dashed" /\ TheRange.left.mon = 11
    /\ TheRange.right.kind = "bare" /\ TheRange.right.day = 30
    /\ Len(output.dates) = 18
    /\ getDate(output.dates[1]) = 13 /\ getDate(output.dates[18]) = 30

\* C15: a range whose end is before its start, a dash range with a bare day
\* smaller than the day of the start or with two full dates, or a pipe range,
\* yields no date: the ends are not swapped.
C15_ReversedRangeIsEmpty ==
    (applied /\ OneRange /\ TheRange.sep # "" /\ HasBothEnds(TheRange)
        /\ (IF TheRange.sep = "-" THEN DashEnd(TheRange) ELSE SideDayNumber(TheRange.right))
               < SideDayNumber(TheRange.left)) =>
        output.dates = << >> /\ Len(output.markets) = 1

\* C15 witness: "dec. 14-13" has been parsed.
C15_Witness ==
    /\ applied /\ OneRange /\ TheRange.sep = "-"
    /\ TheRange.left.kind = "full" /\ TheRange.left.mon = 11 /\ TheRange.left.day = 14
    /\ TheRange.right.kind = "bare" /\ TheRange.right.day = 13
    /\ output.dates = << >>

\* C16: a range with a pipe is read by the pipe rule alone: it yields dates only
\* if both sides are a month, white space and a day (no dot), and then every day
\* from the start to the end; otherwise it yields no date, and is not read again
\* as a dash range or as a single date.
C16_PipeRule ==
    (applied /\ OneRange /\ TheRange.sep = "|") =>
        output.dates =
            IF HasMonthAndDay(TheRange.left, FALSE) /\ HasMonthAndDay(TheRange.right, FALSE)
            THEN DaysFromTo(SideDayNumber(TheRange.left), SideDayNumber(TheRange.right))
            ELSE << >>

\* C16 witness: "Nov. 13-14|dec 1", which as a dash range would run from
\* November 13 to December 1, has given no date.
C16_Witness ==
    /\ applied /\ OneRange /\ TheRange.sep = "|"
    /\ TheRange.left.kind = "dashed" /\ TheRange.left.dot /\ TheRange.left.mon = 10
    /\ TheRange.right.kind = "full" /\ ~TheRange.right.dot
    /\ TheRange.right.mon = 11 /\ TheRange.right.day = 1
    /\ output.dates = << >>

\* C17: every date parseMarketDates returns is in the year SeasonYear.
C17_AllDatesInSeasonYear ==
    applied => \A k \in 1..Len(output.dates) : getFullYear(output.dates[k]) = SeasonYear

\* C18: the dates of a text of several ranges are the dates of each range parsed
\* on its own, one list after the other in the order of the ranges; a date that
\* two ranges share is there twice.
C18_RangesAreConcatenated ==
    applied =>
        output.dates =
            Concat([i \in 1..Len(input.fragments) |->
                        parseMarketDates(FragmentText(input.fragments[i]))])

\* C18 witness: "dec. 13-14, dec. 14" has given December 13, 14 and 14.
C18_Witness ==
    /\ applied /\ Len(input.fragments) = 2
    /\ Len(output.dates) = 3
    /\ getDate(output.dates[1]) = 13
    /\ output.dates[2] = output.dates[3]

\* C19: a range that is malformed yields no date and leaves the dates of the
\* other ranges as they are, and the row of the sheet that holds the text is a
\* market whatever the text: its dates are those of the well-formed ranges.
C19_MalformedRangeIsSkipped ==
    applied =>
        /\ output.dates =
               Concat([i \in 1..Len(input.fragments) |->
                           IF HasBothEnds(input.fragments[i])
                           THEN ExpectedDates(input.fragments[i])
                           ELSE << >>])
        /\ Len(output.markets) = 1
        /\ output.markets[1].date = input.text
        /\ output.markets[1].dates = output.dates

\* C19 witness: "TBD, dec. 13-14" has given a market with December 13 and 14,
\* and nothing for "TBD".
C19_Witness ==
    /\ applied /\ Len(input.fragments) = 2
    /\ ~HasBothEnds(input.fragments[1]) /\ input.fragments[1].left.kind = "text"
    /\ HasBothEnds(input.fragments[2])
    /\ Len(output.markets) = 1
    /\ Len(output.markets[1].dates) = 2

-----------------------------------------------------------------------------
(* Properties of parseCSVLine                                              *)

\* C20: the line written from the fields of a row (one field at least), each
\* between double quotes with its double quotes doubled, the fields joined by
\* commas, is tokenized into the same fields, character for character: commas,
\* double quotes and spaces of a field are kept, and nothing is trimmed.
C20_TokenizerRoundTrip == applied => output = input

\* C20 witness: two fields, the first a comma and a double quote, the second a
\* space, have come back from their line.
C20_Witness ==
    /\ applied
    /\ input = << << ",", "\"" >>, << " " >> >>
    /\ output = input

\* The number of double quotes of the line before position p.
QuotesBefore(line, p) == Cardinality({ q \in 1..(p - 1) : line[q] = "\"" })

\* The positions of the commas read outside quotes: a doubled quote and a pair
\* of quotes both leave the quote state as it was, so a character is outside
\* when an even number of double quotes precedes it.
OutsideCommas(line) ==
    { p \in 1..Len(line) : line[p] = "," /\ QuotesBefore(line, p) % 2 = 0 }

\* C21: parseCSVLine returns, for every line, one field more than the line has
\* commas outside quotes; when a quote is left open, the last field runs to the
\* end of the line, commas included.
C21_SplitsOnOutsideCommas ==
    applied =>
        /\ Len(output) = 1 + Cardinality(OutsideCommas(input))
        /\ QuotesBefore(input, Len(input) + 1) % 2 = 1 =>
               LET open == CHOOSE q \in 1..Len(input) :
                               input[q] = "\"" /\ \A r \in (q + 1)..Len(input) : input[r] # "\""
                   rest == SubSeq(input, open + 1, Len(input))
                   last == output[Len(output)]
               IN  /\ Len(last) >= Len(rest)
                   /\ SubSeq(last, Len(last) - Len(rest) + 1, Len(last)) = rest

\* C21 witness: the line  a,"a,  has given the two fields  a  and  a, .
C21_Witness ==
    /\ applied
    /\ input = << "a", ",", "\"", "a", "," >>
    /\ output = << << "a" >>, << "a", "," >> >>

-----------------------------------------------------------------------------
(* Properties of extractCityFromAddress                                    *)

\* The segments that are a state: two upper-case letters alone, or two
\* upper-case letters, between word boundaries, and a postal code of five digits.
IsStateSegment(seg) == seg \in { SegStateZip, SegState }

\* The segments that hold two upper-case letters and five digits without being
\* a state: the letters are not between word boundaries.
IsLooseStateSegment(seg) == seg \in { SegJoined, SegPrefixed }

\* The segments that can be a city: not empty once trimmed, and not a street
\* with its number.
IsCityCandidate(seg) == seg \notin { SegEmpty, SegBlank, SegStreet }

\* The index of the last state segment of the address, 0 when it has none.
LastStateSegment ==
    LET ss == input.segments
    IN  IF \E i \in 1..Len(ss) : IsStateSegment(ss[i])
        THEN CHOOSE i \in 1..Len(ss) :
                 IsStateSegment(ss[i]) /\ \A j \in (i + 1)..Len(ss) : ~IsStateSegment(ss[j])
        ELSE 0

\* C22: when the last state segment of an address is not the first segment and
\* the segment before it is not empty and is not a street with its number, the
\* city is that segment; the city of an empty or blank address is "Unknown".
C22_CityBeforeLastState ==
    applied =>
        /\ (LastStateSegment > 1 /\ IsCityCandidate(input.segments[LastStateSegment - 1])) =>
               output = input.segments[LastStateSegment - 1]
        /\ input.text \in { SegEmpty, SegBlank } => output = Unknown

\* C22 witness: "5 Elm, Denver, CO 80202" has given "Denver".
C22_Witness ==
    /\ applied
    /\ input.segments = << SegStreet, SegCity, SegStateZip >>
    /\ output = SegCity

\* C23 as claimed: the city is other than "Unknown" only if a segment is a
\* state, and once a state segment is found the fallback is not taken: the city
\* is the segment before the last state segment or "Unknown".
C23_CityOnlyWithStateSegment ==
    (applied /\ output # Unknown) =>
        /\ LastStateSegment > 1
        /\ output = input.segments[LastStateSegment - 1]

\* C23 amended: the fallback is taken whenever the scan has returned nothing (no
\* state segment, a state segment that is the first segment, or a candidate
\* that is rejected), and its pattern asks for no word boundary: with two
\* segments or more and a last segment that is a state or holds two upper-case
\* letters and five digits, the city is the segment before the last, unless
\* that is empty or a street with its number; in every other case it is "Unknown".
C23_CityOfScanOrFallback ==
    applied =>
        LET ss == input.segments
            n == Len(ss)
        IN  output =
                IF LastStateSegment > 1 /\ IsCityCandidate(ss[LastStateSegment - 1])
                THEN ss[LastStateSegment - 1]
                ELSE IF /\ n >= 2
                        /\ IsStateSegment(ss[n]) \/ IsLooseStateSegment(ss[n])
                        /\ IsCityCandidate(ss[n - 1])
                     THEN ss[n - 1]
                     ELSE Unknown

\* C23 witness: "CO, Denver, XCO 80202", whose one state segment is the first,
\* has given "Denver" by the fallback.
C23_Witness ==
    /\ applied
    /\ input.segments = << SegState, SegCity, SegPrefixed >>
    /\ LastStateSegment = 1
    /\ output = SegCity

\* C24: the city is never the empty string and never begins with digits followed
\* by white space; it is "Unknown" or a segment of the address that can be a city.
C24_CityIsNeverStreetOrEmpty ==
    applied =>
        /\ output # << >>
        /\ ~\E k \in 2..Len(output) :
               /\ output[k] \in { " ", "\t" }
               /\ \A j \in 1..(k - 1) : output[j] \in DigitChars
        /\ \/ output = Unknown
           \/ \E i \in 1..Len(input.segments) :
                  IsCityCandidate(input.segments[i]) /\ output = input.segments[i]

\* C24 witness: "5 Elm, CO 80202", whose candidate is rejected by the scan and by
\* the fallback, has given "Unknown".
C24_Witness ==
    /\ applied
    /\ input.segments = << SegStreet, SegStateZip >>
    /\ output = Unknown

\* The markets of a sheet of the header line and the one data row.
MarketsOfRowAlone(row) == parseCSV(HeaderLine \o << "\n" >> \o row)

\* C26: the markets of a sheet are those of its data rows that are valid, one for
\* each, in the order of the rows; whether a row gives a market, and which,
\* depends on that row alone (a row is valid when the sheet of the header and
\* that row gives a market); the first line gives none, and a row that is
\* skipped does not end the reading.
C26_RowsAreReadOneByOne ==
    applied =>
        LET rows == DataRows(input)
            valid == { i \in 1..Len(rows) : MarketsOfRowAlone(rows[i]) # << >> }
        IN  /\ Len(output) = Cardinality(valid)
            /\ \A j \in 1..Len(output) :
                   /\ output[j].ref \in valid
                   /\ [output[j] EXCEPT !.ref = 1] = MarketsOfRowAlone(rows[output[j].ref])[1]
            /\ \A j \in 1..Len(output) : \A k \in (j + 1)..Len(output) :
                   output[j].ref < output[k].ref

\* C26 witness: a sheet whose first line reads like a data row, whose second line
\* has two tokens and whose third line is valid has given the market of the
\* third line alone.
C26_Witness ==
    /\ applied
    /\ input = JoinLines(<< RowYule, RowShort, RowZoo >>)
    /\ Len(output) = 1
    /\ output[1].ref = 2

-----------------------------------------------------------------------------
(* Properties of the controls of the page                                  *)

\* The cities of the markets.
CitiesOfMarkets == { Markets[i].city : i \in 1..Len(Markets) }

\* C25: once the markets are loaded the options of the city control are the
\* cities of the markets, each once, in ascending order; they are appended in the
\* step that loads the markets and in no other.
C25_CityOptions ==
    /\ [](IF fetch = "loaded"
          THEN /\ { cityOptions[p] : p \in 1..Len(cityOptions) } = CitiesOfMarkets
               /\ \A p \in 1..Len(cityOptions) : \A q \in (p + 1)..Len(cityOptions) :
                      StrLess(cityOptions[p], cityOptions[q])
          ELSE cityOptions = << >>)
    /\ [][cityOptions' # cityOptions => fetch = "reading" /\ fetch' = "loaded"]_vars

\* C25 witness: three markets of two cities, the first in the sheet not the first
\* in the alphabet, have given two options.
C25_Witness ==
    /\ fetch = "loaded"
    /\ Len(Markets) = 3 /\ Len(cityOptions) = 2
    /\ Markets[1].city = cityOptions[2]
    /\ Markets[3].city = cityOptions[2]
    /\ state.currentFilters.city = cityOptions[1]

\* C27: dateFilter is always '', 'today', 'tomorrow' or 'weekend'; a click on a
\* quick filter button clears dateFilter when it is the filter of the button and
\* sets it to that filter otherwise, and changes neither the search text, the
\* city, the sort column, the sort direction nor the markets; no other step
\* changes dateFilter.
C27_QuickFilterToggle ==
    /\ [](state.currentFilters.dateFilter \in { << >>, Today, Tomorrow, Weekend })
    /\ [][ /\ QuickFilterClick =>
                /\ \E f \in { Today, Tomorrow, Weekend } :
                       state'.currentFilters.dateFilter =
                           IF state.currentFilters.dateFilter = f THEN << >> ELSE f
                /\ state.currentFilters.dateFilter = << >> =>
                       state'.currentFilters.dateFilter # << >>
                /\ state'.currentFilters.search = state.currentFilters.search
                /\ state'.currentFilters.city = state.currentFilters.city
                /\ state'.sortColumn = state.sortColumn
                /\ state'.sortAscending = state.sortAscending
                /\ state'.markets = state.markets
           /\ state'.currentFilters.dateFilter # state.currentFilters.dateFilter =>
                  QuickFilterClick
         ]_vars

\* C27 witness: with a search text and a city set and a descending sort, the
\* filter 'weekend' is set.
C27_Witness ==
    /\ state.currentFilters.dateFilter = Weekend
    /\ state.currentFilters.search # << >>
    /\ state.currentFilters.city # << >>
    /\ ~state.sortAscending

\* C28: a click on the header of the sort column flips the direction and keeps
\* the column; a click on another header sets the column and an ascending
\* direction; so a step that changes the sort column leaves the direction
\* ascending; a sort click changes neither the filters nor the markets, and no
\* other step changes the sort column or the direction.
C28_SortHeaderClick ==
    [][ /\ SortClick =>
             /\ \E c \in { ColName, ColDate, ColCity } :
                    /\ state'.sortColumn = c
                    /\ state'.sortAscending =
                           IF state.sortColumn = c THEN ~state.sortAscending ELSE TRUE
             /\ state'.currentFilters = state.currentFilters
             /\ state'.markets = state.markets
        /\ state'.sortColumn # state.sortColumn => state'.sortAscending
        /\ (state'.sortColumn # state.sortColumn
               \/ state'.sortAscending # state.sortAscending) => SortClick
      ]_vars

\* C28 witness: after a descending sort by another column, the sort is by date,
\* ascending, with the filters set before still in place.
C28_Witness ==
    /\ state.sortColumn = ColDate /\ state.sortAscending
    /\ state.currentFilters.dateFilter # << >>
    /\ state.currentFilters.search # << >>
    /\ Len(View) >= 2

\* C29: selectedMarket is null or one of the markets; a step sets it to a market
\* only by a click on a row or a marker of a market of the view, and to null only
\* by closing the details; the search, city, sort and quick filter events leave
\* it as it is, even when the market leaves the view.
C29_SelectedMarket ==
    /\ [](state.selectedMarket = Null
             \/ \E i \in 1..Len(Markets) : Markets[i] = state.selectedMarket)
    /\ [][ /\ state'.selectedMarket # state.selectedMarket =>
                IF state'.selectedMarket = Null
                THEN CloseDetails
                ELSE SelectMarket /\ InView(state'.selectedMarket)
           /\ state'.selectedMarket # state.selectedMarket =>
                  ~(SearchInput \/ CityChange \/ SortClick \/ QuickFilterClick)
         ]_vars

\* C29 witness: a market is selected and a filter set since has taken it out of
\* the view.
C29_Witness ==
    /\ state.selectedMarket # Null
    /\ ~InView(state.selectedMarket)
    /\ Len(View) >= 1

=============================================================================
